---- MODULE Spec2Model ----
(***************************************************************************)
(* The request-dispatch core of the scraping gateway:                      *)
(*   PriorityQueue              (common/queue.ts, src/unnamed/part_008)    *)
(*   classifyError etc.         (src/src/common/errors.ts)                 *)
(*   TwitterClientPoolService   (src/src/twitter/                          *)
(*                               twitter-client-pool.service.ts)           *)
(*   withTimeout                (common/timeout.ts, src/unnamed/part_008)  *)
(*   TwitterController.wrap, ApiExceptionFilter                            *)
(*                              (twitter.controller.ts, api-response.ts)   *)
(*   AccountsStore, parseAccountsFromTxt                                   *)
(*                              (accounts.store.ts, src/unnamed/part_005)  *)
(*                                                                         *)
(* Time is Date.now() counted in units of the cooldown (2 minutes).  The   *)
(* clock never runs backwards.  JavaScript runs one callback at a time: an *)
(* action is the code between two awaits.                                  *)
(* authenticate is modelled by its outcome: it returns or it throws.       *)
(***************************************************************************)
EXTENDS Integers, Sequences, FiniteSets, TLC

VARIABLES
    accounts,          \* number of accounts loaded: listAccounts() is 1 .. accounts
    now,               \* Date.now()
    items,             \* PriorityQueue.items
    nextId,            \* number of enqueue calls made so far
    req,               \* per request: where its runWithRetry stands, its promise
    health,            \* healthMap
    activeOps,         \* TwitterClientPoolService.activeOps
    observed,          \* what the latest direct call on the queue returned
    everLocked,        \* history: accounts that made the LOCKED transition
    rateLimitedUntil,  \* history: cooldownUntil written by the latest RATE_LIMIT failure
    throws,            \* history: failures of authenticate and of the executor so far
    call,              \* one call of withTimeout: its promises and its timer
    classified,        \* one error put through classifyError and isTransientError
    http,              \* one request to the controller and the response it gets
    cookiesFile,       \* the cookie cache file at cookiesPath
    saved,             \* history: the calls of saveCookies made so far
    parsed,            \* one text put through parseAccountsFromTxt
    selected,          \* the latest account selected, and the attempts in flight on each
    sweptAt,           \* history: Date.now() when the health check interval last fired
    recorded,          \* history: successes recorded per account since its last
                       \* failure, and since the sweep that put it on PROBATION
    ladder             \* per call of authenticate: where it stands on its ladder

\* the variables of the AccountsStore and of the authentications that use it
storage == <<cookiesFile, saved, parsed, ladder>>

\* the variables of the health registry called directly
registry == <<selected, sweptAt, recorded>>

\* the variables outside the pool and its queue
outside == <<call, classified, http, storage, registry>>

\* the variables of the pool and its queue, but for the clock
pool == <<accounts, items, nextId, req, health, activeOps, observed,
          everLocked, rateLimitedUntil, throws>>

vars == <<now, pool, outside>>

----------------------------------------------------------------------------
\* Bounds of the model.

\* the clock runs from 1 to MaxTime
MaxTime == 3

\* calls of execute in one behaviour of the pool
MaxRequests == 2

\* calls of enqueue in one behaviour of the queue on its own
MaxEnqueues == 4

\* failures of authenticate and of the executor in one behaviour of the pool
MaxThrows == 2

\* the accounts file holds 0 .. NumAccounts accounts
NumAccounts == 2

----------------------------------------------------------------------------
\* Constants of the program.  Time is scaled: one unit is the cooldown.

\* MAX_QUEUE_SIZE of the configuration (default 1000), scaled down
maxQueueSize == 3

\* MAX_CONCURRENCY of the configuration (default 10), scaled down
maxConcurrency == 1

\* runWithRetry's default parameter
maxRetries == 3

\* 10 in the source, scaled down; more than the failures one request can bring
\* on an account before its last attempt
maxConsecutiveFailures == 3

\* 2 * 60_000 ms in the source
cooldownMs == 1

\* 15 * 60_000 ms in the source, scaled down
rateLimitWindow == 2

\* 50 in the source, scaled down
maxRequestsPerWindow == 3

\* successRate is kept in thousandths
RateScale == 10 * 100

undefined == 0 - 1

Ids == 1 .. (IF MaxEnqueues > MaxRequests THEN MaxEnqueues ELSE MaxRequests)

----------------------------------------------------------------------------
\* RequestPriority

HIGH == 0
MEDIUM == 1
LOW == 2
RequestPriority == {HIGH, MEDIUM, LOW}

----------------------------------------------------------------------------
\* ErrorType, classifyError, isTransientError

TIMEOUT == "timeout"
NETWORK == "network"
RATE_LIMIT == "rate_limit"
AUTH == "authentication"
NOT_FOUND == "not_found"
ACCOUNT_LOCKED == "account_locked"
UNKNOWN == "unknown"
ErrorType == {TIMEOUT, NETWORK, RATE_LIMIT, AUTH, NOT_FOUND, ACCOUNT_LOCKED, UNKNOWN}

QueueFull == "Request queue is full"
NoAccounts == "No usable accounts available"

\* The messages an authentication or a thunk fails with in the model.
UpstreamMessages ==
    { "request timed out", "ECONNRESET", "429 Too Many Requests",
      "401 Unauthorized", "User not found", "Account locked",
      "something weird" }

\* The messages the classifier is given in the model: the upstream ones, the two
\* of the pool itself, one per keyword of classifyError, and messages holding
\* keywords of two rules.
Messages ==
    UpstreamMessages \cup
    {
      "Navigation timeout of 30000 ms exceeded", "REQUEST TIMEOUT",
      "Network Error", "fetch failed", "Lost connection to proxy",
      "socket hang up", "getaddrinfo ENOTFOUND api.x.com",
      "Rate limit exceeded", "Too Many Requests", "HTTP 429", "Unauthorized",
      "HTTP 401", "Authentication failed", "Response status: 403",
      "403 Forbidden", "Bad status line", "HTTP 404",
      "Your account is suspended", "Please verify your identity",
      "Request queue is full", "No usable accounts available",
      "Connection timeout", "Rate limit check timed out",
      "Login timed out: unauthorized", "Timeout: user not found",
      "Timeout while account locked", "Network error: too many requests",
      "socket closed: 401", "fetch failed: 404",
      "connection refused: account suspended", "429: unauthorized",
      "Rate limit: user not found", "Too many requests, account locked",
      "401: user not found", "Authentication failed: account suspended",
      "status 403: not found", "Account not found or locked",
      "status 403, account locked" }

\* message.toLowerCase().includes(keyword), for the messages of the model: the
\* keywords of classifyError that occur in the lower-cased message
includes(message, keyword) ==
    keyword \in
        CASE message = "request timed out" -> {"timed out"}
          [] message = "ECONNRESET" -> {"econnreset"}
          [] message = "429 Too Many Requests" -> {"too many requests", "429"}
          [] message = "401 Unauthorized" -> {"unauthorized", "401"}
          [] message = "User not found" -> {"not found"}
          [] message = "Account locked" -> {"locked"}
          [] message = "Navigation timeout of 30000 ms exceeded" -> {"timeout"}
          [] message = "REQUEST TIMEOUT" -> {"timeout"}
          [] message = "Network Error" -> {"network"}
          [] message = "fetch failed" -> {"fetch failed"}
          [] message = "Lost connection to proxy" -> {"connection"}
          [] message = "socket hang up" -> {"socket"}
          [] message = "getaddrinfo ENOTFOUND api.x.com" -> {"enotfound"}
          [] message = "Rate limit exceeded" -> {"rate limit"}
          [] message = "Too Many Requests" -> {"too many requests"}
          [] message = "HTTP 429" -> {"429"}
          [] message = "Unauthorized" -> {"unauthorized"}
          [] message = "HTTP 401" -> {"401"}
          [] message = "Authentication failed" -> {"authentication failed"}
          [] message = "Response status: 403" -> {"status", "403"}
          [] message = "403 Forbidden" -> {"403"}
          [] message = "Bad status line" -> {"status"}
          [] message = "HTTP 404" -> {"404"}
          [] message = "Your account is suspended" -> {"suspended"}
          [] message = "Please verify your identity" -> {"verify your identity"}
          [] message = "Connection timeout" -> {"timeout", "connection"}
          [] message = "Rate limit check timed out" -> {"timed out", "rate limit"}
          [] message = "Login timed out: unauthorized" -> {"timed out", "unauthorized"}
          [] message = "Timeout: user not found" -> {"timeout", "not found"}
          [] message = "Timeout while account locked" -> {"timeout", "locked"}
          [] message = "Network error: too many requests" -> {"network", "too many requests"}
          [] message = "socket closed: 401" -> {"socket", "401"}
          [] message = "fetch failed: 404" -> {"fetch failed", "404"}
          [] message = "connection refused: account suspended" -> {"connection", "suspended"}
          [] message = "429: unauthorized" -> {"429", "unauthorized"}
          [] message = "Rate limit: user not found" -> {"rate limit", "not found"}
          [] message = "Too many requests, account locked" -> {"too many requests", "locked"}
          [] message = "401: user not found" -> {"401", "not found"}
          [] message = "Authentication failed: account suspended" -> {"authentication failed", "suspended"}
          [] message = "status 403: not found" -> {"status", "403", "not found"}
          [] message = "Account not found or locked" -> {"not found", "locked"}
          [] message = "status 403, account locked" -> {"status", "403", "locked"}
          [] OTHER -> {}

classifyError_NotFoundFirst(message) ==
    IF includes(message, "timeout") \/ includes(message, "timed out")
    THEN TIMEOUT
    ELSE IF \/ includes(message, "network")
            \/ includes(message, "fetch failed")
            \/ includes(message, "connection")
            \/ includes(message, "socket")
            \/ includes(message, "econnreset")
            \/ includes(message, "enotfound")
    THEN NETWORK
    ELSE IF \/ includes(message, "rate limit")
            \/ includes(message, "too many requests")
            \/ includes(message, "429")
    THEN RATE_LIMIT
    ELSE IF includes(message, "not found") \/ includes(message, "404")
    THEN NOT_FOUND
    ELSE IF \/ includes(message, "unauthorized")
            \/ includes(message, "401")
            \/ includes(message, "authentication failed")
            \/ (includes(message, "status") /\ includes(message, "403"))
    THEN AUTH
    ELSE IF \/ includes(message, "locked")
            \/ includes(message, "suspended")
            \/ includes(message, "verify your identity")
    THEN ACCOUNT_LOCKED
    ELSE UNKNOWN

classifyError(message) ==
    IF includes(message, "timeout") \/ includes(message, "timed out")
    THEN TIMEOUT
    ELSE IF \/ includes(message, "network")
            \/ includes(message, "fetch failed")
            \/ includes(message, "connection")
            \/ includes(message, "socket")
            \/ includes(message, "econnreset")
            \/ includes(message, "enotfound")
    THEN NETWORK
    ELSE IF \/ includes(message, "rate limit")
            \/ includes(message, "too many requests")
            \/ includes(message, "429")
    THEN RATE_LIMIT
    ELSE IF \/ includes(message, "unauthorized")
            \/ includes(message, "401")
            \/ includes(message, "authentication failed")
            \/ (includes(message, "status") /\ includes(message, "403"))
    THEN AUTH
    ELSE IF includes(message, "not found") \/ includes(message, "404")
    THEN NOT_FOUND
    ELSE IF \/ includes(message, "locked")
            \/ includes(message, "suspended")
            \/ includes(message, "verify your identity")
    THEN ACCOUNT_LOCKED
    ELSE UNKNOWN

isTransientError_NoNetwork(errorType) ==
    errorType = TIMEOUT \/ errorType = UNKNOWN

isTransientError_AuthRetried(errorType) ==
    errorType \in {TIMEOUT, NETWORK, UNKNOWN, AUTH, NOT_FOUND}

isTransientError_RateLimitRetried(errorType) ==
    errorType \in {TIMEOUT, NETWORK, UNKNOWN, RATE_LIMIT}

isTransientError_LockedRetried(errorType) ==
    errorType \in {TIMEOUT, NETWORK, UNKNOWN, ACCOUNT_LOCKED}

isTransientError(errorType) ==
    errorType = TIMEOUT \/ errorType = NETWORK \/ errorType = UNKNOWN

errorTypeToHttpStatus_AllInternal(errorType) == 500

errorTypeToHttpStatus(errorType) ==
    CASE errorType = RATE_LIMIT -> 429
      [] errorType = AUTH -> 401
      [] errorType = NOT_FOUND -> 404
      [] errorType = ACCOUNT_LOCKED -> 503
      [] errorType = TIMEOUT -> 502
      [] errorType = NETWORK -> 502
      [] OTHER -> 500

----------------------------------------------------------------------------
\* withTimeout and the promises it works with

\* a promise: its state and the value or the reason it settled with
pending == [state |-> "pending", value |-> << >>]
fulfilled(value) == [state |-> "fulfilled", value |-> value]
rejected(reason) == [state |-> "rejected", value |-> reason]

\* `${operation} timed out after ${ms}ms`, as the parts of the template
timedOut(operation, ms) == <<operation, " timed out after ", ms, "ms">>

race_LastWins(settled, outcome) == outcome

\* Promise.race: the promise it returned, after one of its inputs settles with
\* the outcome; it takes the first settlement and no other
race(settled, outcome) ==
    IF settled.state = "pending" THEN outcome ELSE settled

\* clearTimeout(timer)
clearTimeout(timer) == IF timer = "armed" THEN "cleared" ELSE timer

\* what the promises passed to withTimeout settle with in the model
Outcomes == {fulfilled(<<"42">>), rejected(<<"boom">>)}

Operations == {"test", "slow-op", "fail-op"}

\* the delays withTimeout is called with, in units of the clock
Delays == 1 .. MaxTime - 1

\* before withTimeout is called
NotCalled ==
    [ promise |-> pending,      \* the promise passed in
      ms |-> 0,
      operation |-> "undefined",
      timer |-> "none",         \* none, armed, fired, cleared
      deadline |-> undefined,   \* the time setTimeout was asked to fire at
      timeout |-> pending,      \* the promise the timer rejects
      returned |-> pending,     \* the promise withTimeout returned
      settlements |-> 0 ]       \* history: times the returned promise took an outcome

----------------------------------------------------------------------------
\* PriorityQueue

\* a QueuedRequest; id stands for its execute / resolve / reject closures
QueuedRequest(id, priority, timestamp) ==
    [id |-> id, priority |-> priority, timestamp |-> timestamp]

Nothing == [id |-> 0, priority |-> undefined, timestamp |-> undefined]

isFull_Off(q) == Len(q) > maxQueueSize

\* the guard of enqueue, the getter isFull
isFull(q) == Len(q) >= maxQueueSize

goesBefore_Ties(request, item) ==
    \/ request.priority < item.priority
    \/ /\ request.priority = item.priority
       /\ request.timestamp <= item.timestamp

\* the condition of the insertion loop
goesBefore(request, item) ==
    \/ request.priority < item.priority
    \/ /\ request.priority = item.priority
       /\ request.timestamp < item.timestamp

insertIdx_Back(q, request) == Len(q) + 1

\* the insertion loop: the first index whose item the request goes before
insertIdx(q, request) ==
    LET hits == {i \in 1 .. Len(q) : goesBefore(request, q[i])}
    IN  IF hits = {} THEN Len(q) + 1
        ELSE CHOOSE i \in hits : \A j \in hits : i <= j

\* items.splice(insertIdx, 0, request)
splice(q, idx, request) ==
    SubSeq(q, 1, idx - 1) \o <<request>> \o SubSeq(q, idx, Len(q))

\* the queue after enqueue admitted the request
enqueue(q, request) == splice(q, insertIdx(q, request), request)

\* items.shift(): the value returned, and what is left
shifted(q) == IF Len(q) = 0 THEN Nothing ELSE Head(q)
afterShift(q) == IF Len(q) = 0 THEN q ELSE Tail(q)

----------------------------------------------------------------------------
\* AccountStatus, AccountHealth

HEALTHY == "healthy"
PROBATION == "probation"
COOLDOWN == "cooldown"
DISABLED == "disabled"
LOCKED == "locked"
AccountStatus == {HEALTHY, PROBATION, COOLDOWN, DISABLED, LOCKED}

\* the record ensureHealth creates on first touch
ensureHealth ==
    [ status |-> HEALTHY,
      lastUsed |-> 0,
      requestCount |-> 0,
      consecutiveFailures |-> 0,
      consecutiveSuccesses |-> 0,
      cooldownUntil |-> undefined,
      lastErrorType |-> "undefined",
      lastErrorTime |-> undefined,
      successRate |-> RateScale,
      requestTimestamps |-> << >> ]

\* a value JavaScript takes as true in a condition (a number or undefined)
truthy(x) == x # undefined /\ x # 0

\* requestTimestamps.filter((t) => now - t < rateLimitWindow)
recentRequests(timestamps, t) ==
    SelectSeq(timestamps, LAMBDA s : t - s < rateLimitWindow)

recordSuccess_KeepsFailures(h, t) ==
    [ h EXCEPT
        !.lastUsed = t,
        !.requestCount = h.requestCount + 1,
        !.consecutiveSuccesses = h.consecutiveSuccesses + 1,
        !.requestTimestamps = Append(h.requestTimestamps, t) ]

recordSuccess_PromotesAtOnce(h, t) ==
    [ h EXCEPT
        !.lastUsed = t,
        !.requestCount = h.requestCount + 1,
        !.consecutiveSuccesses = h.consecutiveSuccesses + 1,
        !.consecutiveFailures = 0,
        !.requestTimestamps = Append(h.requestTimestamps, t),
        !.successRate = RateScale,
        !.status = IF h.status = PROBATION THEN HEALTHY ELSE h.status ]

recordSuccess(h, t) ==
    LET count == h.requestCount + 1
        successes == h.consecutiveSuccesses + 1
        \* (requestCount - 0) / requestCount, or 1
        ratio == IF count > 0 THEN ((count - 0) * RateScale) \div count
                 ELSE RateScale
        \* successRate * 0.9 + 0.1
        rate == (ratio * 9) \div 10 + RateScale \div 10
    IN  [ h EXCEPT
            !.lastUsed = t,
            !.requestCount = count,
            !.consecutiveSuccesses = successes,
            !.consecutiveFailures = 0,
            !.requestTimestamps = Append(h.requestTimestamps, t),
            !.successRate = rate,
            !.status = IF h.status = PROBATION /\ successes >= 3
                       THEN HEALTHY ELSE h.status ]

recordFailure_AuthDisables(h, errorType, t) ==
    LET failures == h.consecutiveFailures + 1
        bumped == [ h EXCEPT
                      !.lastUsed = t,
                      !.requestCount = h.requestCount + 1,
                      !.consecutiveFailures = failures,
                      !.consecutiveSuccesses = 0,
                      !.lastErrorType = errorType,
                      !.lastErrorTime = t,
                      !.requestTimestamps = Append(h.requestTimestamps, t),
                      !.successRate = (h.successRate * 9) \div 10 ]
    IN  IF errorType = ACCOUNT_LOCKED
        THEN [bumped EXCEPT !.status = LOCKED]
        ELSE IF errorType = AUTH
        THEN [bumped EXCEPT !.status = DISABLED]
        ELSE IF errorType = RATE_LIMIT
        THEN [bumped EXCEPT !.status = COOLDOWN, !.cooldownUntil = t + cooldownMs]
        ELSE IF failures >= maxConsecutiveFailures
        THEN [bumped EXCEPT !.status = COOLDOWN, !.cooldownUntil = t + cooldownMs]
        ELSE bumped

recordFailure_KeepsSuccesses(h, errorType, t) ==
    LET failures == h.consecutiveFailures + 1
        bumped == [ h EXCEPT
                      !.lastUsed = t,
                      !.requestCount = h.requestCount + 1,
                      !.consecutiveFailures = failures,
                      !.lastErrorType = errorType,
                      !.lastErrorTime = t,
                      !.requestTimestamps = Append(h.requestTimestamps, t),
                      !.successRate = (h.successRate * 9) \div 10 ]
    IN  IF errorType = ACCOUNT_LOCKED
        THEN [bumped EXCEPT !.status = LOCKED]
        ELSE IF errorType = RATE_LIMIT
        THEN [bumped EXCEPT !.status = COOLDOWN, !.cooldownUntil = t + cooldownMs]
        ELSE IF failures >= maxConsecutiveFailures
        THEN [bumped EXCEPT !.status = COOLDOWN, !.cooldownUntil = t + cooldownMs]
        ELSE bumped

recordFailure_AuthCools(h, errorType, t) ==
    LET failures == h.consecutiveFailures + 1
        bumped == [ h EXCEPT
                      !.lastUsed = t,
                      !.requestCount = h.requestCount + 1,
                      !.consecutiveFailures = failures,
                      !.consecutiveSuccesses = 0,
                      !.lastErrorType = errorType,
                      !.lastErrorTime = t,
                      !.requestTimestamps = Append(h.requestTimestamps, t),
                      !.successRate = (h.successRate * 9) \div 10 ]
    IN  IF errorType = ACCOUNT_LOCKED
        THEN [bumped EXCEPT !.status = LOCKED]
        ELSE IF errorType = RATE_LIMIT \/ errorType = AUTH
        THEN [bumped EXCEPT !.status = COOLDOWN, !.cooldownUntil = t + cooldownMs]
        ELSE IF failures >= maxConsecutiveFailures
        THEN [bumped EXCEPT !.status = COOLDOWN, !.cooldownUntil = t + cooldownMs]
        ELSE bumped

recordFailure_CoolsLater(h, errorType, t) ==
    LET failures == h.consecutiveFailures + 1
        bumped == [ h EXCEPT
                      !.lastUsed = t,
                      !.requestCount = h.requestCount + 1,
                      !.consecutiveFailures = failures,
                      !.consecutiveSuccesses = 0,
                      !.lastErrorType = errorType,
                      !.lastErrorTime = t,
                      !.requestTimestamps = Append(h.requestTimestamps, t),
                      !.successRate = (h.successRate * 9) \div 10 ]
    IN  IF errorType = ACCOUNT_LOCKED
        THEN [bumped EXCEPT !.status = LOCKED]
        ELSE IF errorType = RATE_LIMIT
        THEN [bumped EXCEPT !.status = COOLDOWN, !.cooldownUntil = t + cooldownMs]
        ELSE IF failures > maxConsecutiveFailures
        THEN [bumped EXCEPT !.status = COOLDOWN, !.cooldownUntil = t + cooldownMs]
        ELSE bumped

recordFailure_NoDeadline(h, errorType, t) ==
    LET failures == h.consecutiveFailures + 1
        bumped == [ h EXCEPT
                      !.lastUsed = t,
                      !.requestCount = h.requestCount + 1,
                      !.consecutiveFailures = failures,
                      !.consecutiveSuccesses = 0,
                      !.lastErrorType = errorType,
                      !.lastErrorTime = t,
                      !.requestTimestamps = Append(h.requestTimestamps, t),
                      !.successRate = (h.successRate * 9) \div 10 ]
    IN  IF errorType = ACCOUNT_LOCKED
        THEN [bumped EXCEPT !.status = LOCKED]
        ELSE IF errorType = RATE_LIMIT
        THEN [bumped EXCEPT !.status = COOLDOWN, !.cooldownUntil = t + cooldownMs]
        ELSE IF failures >= maxConsecutiveFailures
        THEN [bumped EXCEPT !.status = COOLDOWN]
        ELSE bumped

recordFailure(h, errorType, t) ==
    LET failures == h.consecutiveFailures + 1
        bumped == [ h EXCEPT
                      !.lastUsed = t,
                      !.requestCount = h.requestCount + 1,
                      !.consecutiveFailures = failures,
                      !.consecutiveSuccesses = 0,
                      !.lastErrorType = errorType,
                      !.lastErrorTime = t,
                      !.requestTimestamps = Append(h.requestTimestamps, t),
                      !.successRate = (h.successRate * 9) \div 10 ]
    IN  IF errorType = ACCOUNT_LOCKED
        THEN [bumped EXCEPT !.status = LOCKED]
        ELSE IF errorType = RATE_LIMIT
        THEN [bumped EXCEPT !.status = COOLDOWN, !.cooldownUntil = t + cooldownMs]
        ELSE IF failures >= maxConsecutiveFailures
        THEN [bumped EXCEPT !.status = COOLDOWN, !.cooldownUntil = t + cooldownMs]
        ELSE bumped

healthCheck_ResetsSuccesses(h, t) ==
    LET pruned == [h EXCEPT !.requestTimestamps = recentRequests(h.requestTimestamps, t)]
    IN  IF h.status = COOLDOWN /\ truthy(h.cooldownUntil) /\ t > h.cooldownUntil
        THEN [pruned EXCEPT !.status = PROBATION, !.consecutiveFailures = 0,
                            !.consecutiveSuccesses = 0]
        ELSE pruned

healthCheck_Late(h, t) ==
    LET pruned == [h EXCEPT !.requestTimestamps = recentRequests(h.requestTimestamps, t)]
    IN  IF h.status = COOLDOWN /\ truthy(h.cooldownUntil)
           /\ t > h.cooldownUntil + cooldownMs
        THEN [pruned EXCEPT !.status = PROBATION, !.consecutiveFailures = 0]
        ELSE pruned

healthCheck_PrunesAll(h, t) ==
    LET pruned == [h EXCEPT !.requestTimestamps = << >>]
    IN  IF h.status = COOLDOWN /\ truthy(h.cooldownUntil) /\ t > h.cooldownUntil
        THEN [pruned EXCEPT !.status = PROBATION, !.consecutiveFailures = 0]
        ELSE pruned

\* the body of runHealthCheck's loop, for one record
healthCheck(h, t) ==
    LET pruned == [h EXCEPT !.requestTimestamps = recentRequests(h.requestTimestamps, t)]
    IN  IF h.status = COOLDOWN /\ truthy(h.cooldownUntil) /\ t > h.cooldownUntil
        THEN [pruned EXCEPT !.status = PROBATION, !.consecutiveFailures = 0]
        ELSE pruned

----------------------------------------------------------------------------
\* selectAccount

eligible_NoRateLimit(hm, a, t) ==
    /\ ~(hm[a].status = DISABLED \/ hm[a].status = LOCKED)
    /\ ~(hm[a].status = COOLDOWN /\ truthy(hm[a].cooldownUntil)
                                 /\ t < hm[a].cooldownUntil)

\* the filter of selectAccount
eligible(hm, a, t) ==
    /\ ~(hm[a].status = DISABLED \/ hm[a].status = LOCKED)
    /\ ~(hm[a].status = COOLDOWN /\ truthy(hm[a].cooldownUntil)
                                 /\ t < hm[a].cooldownUntil)
    /\ ~(Len(recentRequests(hm[a].requestTimestamps, t)) >= maxRequestsPerWindow)

compare_IgnoresStatus(hm, a, b) ==
    IF hm[a].consecutiveFailures # hm[b].consecutiveFailures
    THEN hm[a].consecutiveFailures - hm[b].consecutiveFailures
    ELSE hm[a].lastUsed - hm[b].lastUsed

\* the comparator of selectAccount's sort
compare(hm, a, b) ==
    IF hm[a].status # hm[b].status /\ hm[a].status = HEALTHY THEN 0 - 1
    ELSE IF hm[a].status # hm[b].status /\ hm[b].status = HEALTHY THEN 1
    ELSE IF hm[a].consecutiveFailures # hm[b].consecutiveFailures
    THEN hm[a].consecutiveFailures - hm[b].consecutiveFailures
    ELSE hm[a].lastUsed - hm[b].lastUsed

selectAccount_NoCooldown(hm, t) ==
    LET candidates == {a \in DOMAIN hm : hm[a].status \notin {DISABLED, LOCKED}}
    IN  IF candidates = {} THEN 0
        ELSE CHOOSE a \in candidates : \A b \in candidates : a <= b

\* candidates[0] ?? null, with 0 for null: the sort is stable, so the first of the
\* sorted candidates is the earliest listed of those no other candidate precedes.
\* onModuleInit gave every account of listAccounts() its record: DOMAIN hm.
selectAccount(hm, t) ==
    LET candidates == {a \in DOMAIN hm : eligible(hm, a, t)}
        first == {a \in candidates :
                    \A b \in candidates \ {a} :
                        \/ compare(hm, a, b) < 0
                        \/ (compare(hm, a, b) = 0 /\ a < b)}
    IN  IF candidates = {} THEN 0 ELSE CHOOSE a \in first : TRUE

----------------------------------------------------------------------------
\* State after construction and onModuleInit

\* a request's promise and the position of its runWithRetry
NewRequest ==
    [ pc |-> "idle",            \* idle, queued, dequeued, authenticate, executor,
                                \* backoff, resolved, rejected
      attempt |-> 0,            \* the loop variable of runWithRetry
      account |-> 0,            \* the account selected for the attempt
      lastError |-> "undefined",
      error |-> "undefined",    \* what the promise was rejected with
      invoked |-> 0 ]           \* calls of the executor made so far

NoCall == [op |-> "none", request |-> Nothing, error |-> "undefined"]

\* no error was thrown yet
Unclassified ==
    [ pc |-> "none",            \* none, thrown, classified, decided
      message |-> "undefined",
      errorType |-> "undefined",
      transient |-> FALSE ]

\* no request reached the controller yet
NoRequest ==
    [ pc |-> "none",            \* none, pending, responded
      endpoint |-> "undefined",
      thrown |-> "undefined",   \* the message of the error fn() threw
      status |-> 0,
      body |-> [success |-> FALSE, message |-> "undefined"] ]

\* AccountsStore (storage/accounts.store.ts, src/unnamed/part_005)

\* A text is the sequence of its characters; a value that is undefined is the
\* one-element sequence below, which no text equals.
absent == <<"undefined">>

\* String.prototype.trim: the white space the texts here are made of
whitespace == {" ", "\t", "\r", "\n"}

RECURSIVE trimStart(_)
trimStart(s) ==
    IF Len(s) > 0 /\ s[1] \in whitespace THEN trimStart(Tail(s)) ELSE s

RECURSIVE trimEnd(_)
trimEnd(s) ==
    IF Len(s) > 0 /\ s[Len(s)] \in whitespace
    THEN trimEnd(SubSeq(s, 1, Len(s) - 1))
    ELSE s

trim(s) == trimEnd(trimStart(s))

\* String.prototype.indexOf for one character, counted from 1; 0 when it is not there
indexOf(s, c) ==
    IF \E i \in 1 .. Len(s) : s[i] = c
    THEN CHOOSE i \in 1 .. Len(s) : s[i] = c /\ \A j \in 1 .. i - 1 : s[j] # c
    ELSE 0

RECURSIVE split(_, _)
\* String.prototype.split on one character
split(s, c) ==
    IF indexOf(s, c) = 0
    THEN <<s>>
    ELSE <<SubSeq(s, 1, indexOf(s, c) - 1)>>
            \o split(SubSeq(s, indexOf(s, c) + 1, Len(s)), c)

RECURSIVE join(_, _)
\* Array.prototype.join
join(parts, c) ==
    IF Len(parts) = 0 THEN << >>
    ELSE IF Len(parts) = 1 THEN parts[1]
    ELSE parts[1] \o <<c>> \o join(Tail(parts), c)

\* raw.split(/\r?\n/): a "\r" right before a "\n" belongs to the separator
splitLines(raw) ==
    LET pieces == split(raw, "\n")
    IN  [i \in 1 .. Len(pieces) |->
            IF i < Len(pieces) /\ Len(pieces[i]) > 0
               /\ pieces[i][Len(pieces[i])] = "\r"
            THEN SubSeq(pieces[i], 1, Len(pieces[i]) - 1)
            ELSE pieces[i]]

\* x || undefined, for a text
orUndefined(x) == IF x = << >> \/ x = absent THEN absent ELSE x

normalizeTwoFactorSecret(value) ==
    IF value = << >> \/ value = absent THEN absent
    ELSE LET v == trim(value)
             segments == split(v, "/")
             last == IF indexOf(v, "/") > 0 THEN segments[Len(segments)] ELSE v
         IN  IF v = << >> THEN absent ELSE orUndefined(trim(last))

parseLine_FixedColumns(line) ==
    LET parts == split(line, ":")
        n == Len(parts)
    IN  IF n < 7 THEN << >>
        ELSE IF parts[1] = << >> \/ parts[2] = << >> \/ parts[3] = << >> THEN << >>
        ELSE << [ username |-> parts[1],
                  password |-> parts[2],
                  email |-> parts[3],
                  emailPassword |-> parts[4],
                  twoFactorSecret |->
                      orUndefined(normalizeTwoFactorSecret(
                          join(SubSeq(parts, 5, 5), ":"))),
                  ct0 |-> orUndefined(parts[6]),
                  authToken |-> orUndefined(parts[7]) ] >>

\* the body of the loop of parseAccountsFromTxt: the accounts one line adds
parseLine(line) ==
    LET parts == split(line, ":")
        n == Len(parts)
    IN  IF n < 7 THEN << >>
        ELSE IF parts[1] = << >> \/ parts[2] = << >> \/ parts[3] = << >> THEN << >>
        ELSE << [ username |-> parts[1],
                  password |-> parts[2],
                  email |-> parts[3],
                  emailPassword |-> parts[4],
                  twoFactorSecret |->
                      orUndefined(normalizeTwoFactorSecret(
                          join(SubSeq(parts, 5, n - 2), ":"))),
                  ct0 |-> orUndefined(parts[n - 1]),
                  authToken |-> orUndefined(parts[n]) ] >>

RECURSIVE parseLines(_)
parseLines(lines) ==
    IF Len(lines) = 0 THEN << >>
    ELSE parseLine(lines[1]) \o parseLines(Tail(lines))

parseAccountsFromTxt(raw) ==
    LET trimmed == [i \in 1 .. Len(splitLines(raw)) |-> trim(splitLines(raw)[i])]
        lines == SelectSeq(trimmed, LAMBDA x : Len(x) > 0 /\ x[1] # "#")
    IN  parseLines(lines)

\* no text has been given to the parser
NothingParsed ==
    [pc |-> "none", prefix |-> << >>, fields |-> << >>, second |-> FALSE,
     raw |-> << >>, accounts |-> << >>]

\* The cookie cache file: whether it exists, whether JSON.parse accepts its
\* text, and the text as the rows JSON.stringify writes, one per entry, with the
\* values in the order of the keys of CookieEntry.
NoFile == [exists |-> FALSE, json |-> FALSE, rows |-> << >>]

\* JSON.stringify(entries, null, 2), but for the white space
stringify(entries) ==
    [i \in 1 .. Len(entries) |->
        <<entries[i].username, entries[i].password, entries[i].email,
          entries[i].twofa, entries[i].cookies>>]

\* JSON.parse(text) as CookieEntry[]
parseEntries(rows) ==
    [i \in 1 .. Len(rows) |->
        [username |-> rows[i][1], password |-> rows[i][2], email |-> rows[i][3],
         twofa |-> rows[i][4], cookies |-> rows[i][5]]]

readCookiesFile(file) ==
    IF ~file.exists THEN << >>
    ELSE IF ~file.json THEN << >>
    ELSE parseEntries(file.rows)

\* entries.findIndex((e) => e.username === username), counted from 1
findIndex(entries, username) ==
    IF \E i \in 1 .. Len(entries) : entries[i].username = username
    THEN CHOOSE i \in 1 .. Len(entries) :
            /\ entries[i].username = username
            /\ \A j \in 1 .. i - 1 : entries[j].username # username
    ELSE 0

\* account.twoFactorSecret ?? ""
twofa(account) ==
    IF account.twoFactorSecret = "undefined" THEN "" ELSE account.twoFactorSecret

CookieEntry(account, cookies) ==
    [username |-> account.username, password |-> account.password,
     email |-> account.email, twofa |-> twofa(account), cookies |-> cookies]

saveCookies_Alone(file, account, cookies) ==
    [exists |-> TRUE, json |-> TRUE,
     rows |-> stringify(<<CookieEntry(account, cookies)>>)]

saveCookies_Pushes(file, account, cookies) ==
    [exists |-> TRUE, json |-> TRUE,
     rows |-> stringify(Append(readCookiesFile(file), CookieEntry(account, cookies)))]

\* saveCookies(account, cookies): the file it leaves
saveCookies(file, account, cookies) ==
    LET entries == readCookiesFile(file)
        idx == findIndex(entries, account.username)
        entry == CookieEntry(account, cookies)
    IN  [exists |-> TRUE, json |-> TRUE,
         rows |-> stringify(IF idx > 0
                            THEN [entries EXCEPT ![idx] = entry]
                            ELSE Append(entries, entry))]

\* loadCookies(username); null is the empty list, which it never returns otherwise
loadCookies(file, username) ==
    LET entries == readCookiesFile(file)
        idx == findIndex(entries, username)
    IN  IF idx > 0 THEN entries[idx].cookies ELSE << >>

\* saveCookies has not been called
NothingSaved ==
    [calls |-> 0,
     account |-> [username |-> "", password |-> "", email |-> "",
                  twoFactorSecret |-> "undefined"],
     cookies |-> << >>, before |-> NoFile]

\* one call of authenticate(scraper, account), before it is made
NoSession ==
    [ pc |-> "idle", username |-> "", cached |-> FALSE, tokens |-> FALSE,
      steps |-> << >>, persist |-> "none", fresh |-> << >>, thunk |-> FALSE ]

\* authenticate has not been called
NotAuthenticating == [s \in 1 .. 2 |-> NoSession]

\* selectAccount has not been called directly
NoneSelected == [account |-> undefined, inFlight |-> [a \in 1 .. NumAccounts |-> 0]]

\* no success has been recorded
NoneRecorded ==
    [ sinceFailure |-> [a \in 1 .. NumAccounts |-> 0],
      sinceProbation |-> [a \in 1 .. NumAccounts |-> 0] ]

\* nothing outside the pool, its queue, the controller and withTimeout has happened
Unopened ==
    /\ cookiesFile = NoFile
    /\ saved = NothingSaved
    /\ parsed = NothingParsed
    /\ ladder = NotAuthenticating
    /\ selected = NoneSelected
    /\ sweptAt = 1
    /\ recorded = NoneRecorded

\* nothing outside the pool has happened
Untouched ==
    /\ call = NotCalled
    /\ classified = Unclassified
    /\ http = NoRequest
    /\ Unopened

\* the pool with no account, before any call of execute
Unused ==
    /\ accounts = 0
    /\ now = 1
    /\ items = << >>
    /\ nextId = 0
    /\ req = [id \in Ids |-> NewRequest]
    /\ health = << >>
    /\ activeOps = 0
    /\ observed = NoCall
    /\ everLocked = {}
    /\ rateLimitedUntil = << >>
    /\ throws = 0

Init ==
    /\ Untouched
    /\ accounts \in 0 .. NumAccounts
    /\ now = 1
    /\ items = << >>
    /\ nextId = 0
    /\ req = [id \in Ids |-> NewRequest]
    /\ health = [a \in 1 .. accounts |-> ensureHealth]
    /\ activeOps = 0
    /\ observed = NoCall
    /\ everLocked = {}
    /\ rateLimitedUntil = [a \in 1 .. accounts |-> 0]
    /\ throws = 0

----------------------------------------------------------------------------
\* PriorityQueue.enqueue and dequeue, called directly

\* enqueue(priority, execute): the queue and the promise it returns
Admit(id, priority) ==
    IF isFull(items)
    THEN /\ req' = [req EXCEPT ![id].pc = "rejected", ![id].error = QueueFull]
         /\ items' = items
    ELSE /\ items' = enqueue(items, QueuedRequest(id, priority, now))
         /\ req' = [req EXCEPT ![id].pc = "queued"]

Enqueue(priority) ==
    /\ nextId < MaxEnqueues
    /\ nextId' = nextId + 1
    /\ Admit(nextId + 1, priority)
    /\ observed' = [ op |-> "enqueue", request |-> Nothing,
                     error |-> req'[nextId + 1].error ]
    /\ UNCHANGED <<outside, accounts, now, health, activeOps, everLocked, rateLimitedUntil,
                   throws>>

Dequeue ==
    /\ observed' = [op |-> "dequeue", request |-> shifted(items), error |-> "undefined"]
    /\ items' = afterShift(items)
    /\ req' = IF Len(items) = 0 THEN req
              ELSE [req EXCEPT ![Head(items).id].pc = "dequeued"]
    /\ UNCHANGED <<outside, accounts, now, nextId, health, activeOps, everLocked,
                   rateLimitedUntil, throws>>

\* Date.now() moves on
Tick ==
    /\ now < MaxTime
    /\ now' = now + 1
    /\ UNCHANGED <<outside, accounts, items, nextId, req, health, activeOps, observed,
                   everLocked, rateLimitedUntil, throws>>

NextQueue ==
    \/ \E priority \in RequestPriority : Enqueue(priority)
    \/ Dequeue
    \/ Tick

SpecQueue == Init /\ [][NextQueue]_vars

----------------------------------------------------------------------------
\* TwitterClientPoolService

\* execute(operationType, executor, priority)
Execute(priority) ==
    /\ nextId' = nextId + 1
    /\ Admit(nextId + 1, priority)
    /\ UNCHANGED <<outside, accounts, now, health, activeOps, observed, everLocked,
                   rateLimitedUntil, throws>>

startAttempt_Drops(r, attempt, hm, t) ==
    LET account == selectAccount(hm, t)
    IN  IF account = 0
        THEN r
        ELSE [r EXCEPT !.pc = "authenticate", !.attempt = attempt,
                       !.account = account]

startAttempt_Waits(r, attempt, hm, t) ==
    LET account == selectAccount(hm, t)
    IN  IF account = 0
        THEN [r EXCEPT !.pc = "backoff", !.attempt = attempt, !.lastError = NoAccounts]
        ELSE [r EXCEPT !.pc = "authenticate", !.attempt = attempt,
                       !.account = account]

\* runWithRetry from the head of its loop to the first await: selectAccount, then
\* either the throw or the call of authenticate
startAttempt(r, attempt, hm, t) ==
    LET account == selectAccount(hm, t)
    IN  IF account = 0
        THEN [r EXCEPT !.pc = "rejected", !.attempt = attempt, !.error = NoAccounts]
        ELSE [r EXCEPT !.pc = "authenticate", !.attempt = attempt,
                       !.account = account]

RECURSIVE processLoop(_, _)
\* the while loop of processQueue; execute() runs each request up to its first
\* await, and activeOps changes only after that await
processLoop(q, rq) ==
    IF activeOps < maxConcurrency /\ Len(q) > 0
    THEN LET request == shifted(q)
         IN  processLoop(afterShift(q),
                         [rq EXCEPT ![request.id] =
                              startAttempt(rq[request.id], 0, health, now)])
    ELSE [items |-> q, req |-> rq]

\* the interval callback processQueue
ProcessQueue ==
    /\ items' = processLoop(items, req).items
    /\ req' = processLoop(items, req).req
    /\ UNCHANGED <<outside, accounts, now, nextId, health, activeOps, observed, everLocked,
                   rateLimitedUntil, throws>>

\* the catch block of runWithRetry
Caught(id, message) ==
    LET errorType == classifyError(message)
        account == req[id].account
    IN  /\ health' = [health EXCEPT ![account] = recordFailure(@, errorType, now)]
        /\ req' = [req EXCEPT
                     ![id].lastError = message,
                     ![id].pc = IF ~isTransientError(errorType) THEN "rejected"
                                ELSE "backoff",
                     ![id].error = IF ~isTransientError(errorType) THEN message
                                   ELSE @]
        /\ everLocked' = IF health'[account].status = LOCKED
                            /\ health[account].status # LOCKED
                         THEN everLocked \cup {account} ELSE everLocked
        /\ rateLimitedUntil' = IF errorType = RATE_LIMIT
                               THEN [rateLimitedUntil EXCEPT
                                       ![account] = health'[account].cooldownUntil]
                               ELSE rateLimitedUntil
        /\ throws' = throws + 1

\* authenticate returned: activeOps++ and the executor is called
AuthenticateReturns(id) ==
    /\ req[id].pc = "authenticate"
    /\ activeOps' = activeOps + 1
    /\ req' = [req EXCEPT ![id].pc = "executor", ![id].invoked = @ + 1]
    /\ UNCHANGED <<outside, accounts, now, items, nextId, health, observed, everLocked,
                   rateLimitedUntil, throws>>

AuthenticateThrows_Finally(id, message) ==
    /\ req[id].pc = "authenticate"
    /\ activeOps' = activeOps - 1
    /\ Caught(id, message)
    /\ UNCHANGED <<outside, accounts, now, items, nextId, observed>>

\* authenticate threw
AuthenticateThrows(id, message) ==
    /\ req[id].pc = "authenticate"
    /\ Caught(id, message)
    /\ UNCHANGED <<outside, accounts, now, items, nextId, activeOps, observed>>

\* the executor returned: recordSuccess, return, the finally block
ExecutorReturns(id) ==
    /\ req[id].pc = "executor"
    /\ health' = [health EXCEPT ![req[id].account] = recordSuccess(@, now)]
    /\ activeOps' = activeOps - 1
    /\ req' = [req EXCEPT ![id].pc = "resolved"]
    /\ UNCHANGED <<outside, accounts, now, items, nextId, observed, everLocked,
                   rateLimitedUntil, throws>>

ExecutorThrows_NoFinally(id, message) ==
    /\ req[id].pc = "executor"
    /\ Caught(id, message)
    /\ UNCHANGED <<outside, accounts, now, items, nextId, activeOps, observed>>

\* the executor threw: the finally block, then the catch block
ExecutorThrows(id, message) ==
    /\ req[id].pc = "executor"
    /\ activeOps' = activeOps - 1
    /\ Caught(id, message)
    /\ UNCHANGED <<outside, accounts, now, items, nextId, observed>>

\* the backoff timer fired: attempt++, the loop condition, the next attempt or
\* the throw after the loop
BackoffElapsed(id) ==
    /\ req[id].pc = "backoff"
    /\ req' = [req EXCEPT ![id] =
                 IF req[id].attempt + 1 < maxRetries
                 THEN startAttempt(@, req[id].attempt + 1, health, now)
                 ELSE [@ EXCEPT !.pc = "rejected", !.attempt = req[id].attempt + 1,
                                !.error = req[id].lastError]]
    /\ UNCHANGED <<outside, accounts, now, items, nextId, health, activeOps, observed,
                   everLocked, rateLimitedUntil, throws>>

\* the interval callback runHealthCheck
RunHealthCheck ==
    /\ health' = [a \in DOMAIN health |-> healthCheck(health[a], now)]
    /\ UNCHANGED <<outside, accounts, now, items, nextId, req, activeOps, observed,
                   everLocked, rateLimitedUntil, throws>>

\* getStats(), without the proxy count; statusCounts by status, perAccount by
\* account, successRate in per cent
getStats ==
    [ accounts |->
        [ total |-> accounts,
          byStatus |-> [ status \in AccountStatus |->
                           Cardinality({a \in DOMAIN health :
                                           health[a].status = status}) ] ],
      queue |-> [depth |-> Len(items), maxSize |-> 1000],
      concurrency |-> [active |-> activeOps, max |-> maxConcurrency],
      perAccount |->
        [ a \in DOMAIN health |->
            [ status |-> health[a].status,
              requests |-> health[a].requestCount,
              successRate |-> (health[a].successRate * 100 + RateScale \div 2)
                                 \div RateScale ] ] ]

\* The pool under MaxRequests calls of execute and MaxThrows failures.
Next ==
    \/ nextId < MaxRequests /\ \E priority \in RequestPriority : Execute(priority)
    \/ ProcessQueue
    \/ \E id \in Ids : AuthenticateReturns(id)
    \/ throws < MaxThrows
         /\ \E id \in Ids, message \in UpstreamMessages : AuthenticateThrows(id, message)
    \/ \E id \in Ids : ExecutorReturns(id)
    \/ throws < MaxThrows
         /\ \E id \in Ids, message \in UpstreamMessages : ExecutorThrows(id, message)
    \/ \E id \in Ids : BackoffElapsed(id)
    \/ RunHealthCheck
    \/ Tick

Spec == Init /\ [][Next]_vars

\* What the runtime guarantees once the module is initialised: the interval
\* timer keeps calling processQueue, a backoff timer fires, and (the premise of
\* the liveness claims) every authentication and every thunk settles.
Fairness ==
    /\ WF_vars(ProcessQueue)
    /\ \A id \in 1 .. MaxRequests :
          /\ WF_vars(AuthenticateReturns(id)
                       \/ \E message \in UpstreamMessages :
                             AuthenticateThrows(id, message))
          /\ WF_vars(ExecutorReturns(id)
                       \/ \E message \in UpstreamMessages :
                             ExecutorThrows(id, message))
          /\ WF_vars(BackoffElapsed(id))

SpecLive == Spec /\ Fairness

\* The pool serving one request, whatever fails.
NextRetry ==
    \/ nextId = 0 /\ \E priority \in RequestPriority : Execute(priority)
    \/ ProcessQueue
    \/ AuthenticateReturns(1)
    \/ \E message \in UpstreamMessages : AuthenticateThrows(1, message)
    \/ ExecutorReturns(1)
    \/ \E message \in UpstreamMessages : ExecutorThrows(1, message)
    \/ BackoffElapsed(1)
    \/ RunHealthCheck
    \/ Tick

SpecRetry == Init /\ [][NextRetry]_vars

\* The pool when authentications succeed and thunks return, time out or find
\* the account locked, whatever the number of failures.
NextLocked ==
    \/ nextId < MaxRequests /\ \E priority \in RequestPriority : Execute(priority)
    \/ ProcessQueue
    \/ \E id \in Ids : AuthenticateReturns(id)
    \/ \E id \in Ids : ExecutorReturns(id)
    \/ \E id \in Ids, message \in {"request timed out", "Account locked"} :
          ExecutorThrows(id, message)
    \/ \E id \in Ids : BackoffElapsed(id)
    \/ RunHealthCheck
    \/ Tick

SpecLocked == Init /\ [][NextLocked]_vars

\* The pool serving one request whose authentications succeed and whose thunk
\* returns or fails with "request timed out".
NextThunk ==
    \/ nextId = 0 /\ \E priority \in RequestPriority : Execute(priority)
    \/ ProcessQueue
    \/ AuthenticateReturns(1)
    \/ ExecutorReturns(1)
    \/ ExecutorThrows(1, "request timed out")
    \/ BackoffElapsed(1)
    \/ RunHealthCheck
    \/ Tick

SpecThunk == Init /\ [][NextThunk]_vars

----------------------------------------------------------------------------
\* Properties

\* the accounts loaded
Loaded == DOMAIN health

\* request id leaves the queue or a backoff with account a selected for an attempt
Selects(id, a) ==
    /\ req[id].pc \in {"queued", "backoff"}
    /\ req'[id].pc = "authenticate"
    /\ req'[id].account = a

\* a failure of the given kind is recorded on account a in this step
Records(a, errorType) ==
    /\ health'[a].requestCount = health[a].requestCount + 1
    /\ health'[a].consecutiveFailures = health[a].consecutiveFailures + 1
    /\ health'[a].lastErrorType = errorType

\* C1: in every reachable state of the dispatcher 0 <= activeOps <= MaxConcurrency.
C1_ActiveOpsWithinConcurrency ==
    0 <= activeOps /\ activeOps <= maxConcurrency

\* C2: a dequeue never returns a request of priority p while a request of
\* strictly higher priority (a smaller number) is still in the queue.
C2_DequeueHighestPriority ==
    (observed.op = "dequeue" /\ observed.request.id # 0)
        => \A i \in 1 .. Len(items) :
              ~(items[i].priority < observed.request.priority)

\* C2 witness: LOW, HIGH, MEDIUM were enqueued in this order and the first
\* dequeue returned HIGH, leaving MEDIUM before LOW.
C2_Witness ==
    /\ observed.op = "dequeue"
    /\ observed.request.id = 2
    /\ observed.request.priority = HIGH
    /\ Len(items) = 2
    /\ items[1].id = 3 /\ items[1].priority = MEDIUM
    /\ items[2].id = 1 /\ items[2].priority = LOW

\* C3: of two admitted requests of the same priority the one admitted earlier
\* (the smaller id) is dequeued no later than the other, also when they carry
\* the same timestamp: it stands before the other in the queue, and no dequeue
\* returns a request while an earlier one of its priority waits.
C3_FifoWithinPriority ==
    /\ \A i, j \in 1 .. Len(items) :
          (i < j /\ items[i].priority = items[j].priority)
              => items[i].id < items[j].id
    /\ (observed.op = "dequeue" /\ observed.request.id # 0)
          => \A i \in 1 .. Len(items) :
                items[i].priority = observed.request.priority
                    => observed.request.id < items[i].id

\* C3 witness: the earlier of two requests of one priority and one timestamp
\* was dequeued while the later one waits.
C3_Witness ==
    /\ observed.op = "dequeue"
    /\ observed.request.id # 0
    /\ \E i \in 1 .. Len(items) :
          /\ items[i].priority = observed.request.priority
          /\ items[i].timestamp = observed.request.timestamp
          /\ items[i].id > observed.request.id

\* C4: enqueue on a queue that holds maxQueueSize items rejects with "Request
\* queue is full" and leaves the queue as it was; the queue never holds more
\* than maxQueueSize items; the rejected request is never queued nor dequeued.
C4_QueueFullRejects ==
    /\ [](Len(items) <= maxQueueSize)
    /\ [][ (Len(items) >= maxQueueSize /\ nextId' = nextId + 1)
              => /\ items' = items
                 /\ req'[nextId'].pc = "rejected"
                 /\ req'[nextId'].error = QueueFull ]_vars
    /\ [][ \A id \in Ids :
              req[id].error = QueueFull
                  => /\ req'[id] = req[id]
                     /\ \A i \in 1 .. Len(items') : items'[i].id # id ]_vars

\* C4 witness: an enqueue on a full queue was rejected.
C4_Witness ==
    /\ observed.op = "enqueue"
    /\ observed.error = QueueFull
    /\ Len(items) = maxQueueSize
    /\ req[nextId].pc = "rejected"

\* C5: once an account's status is LOCKED (or DISABLED), it stays the same
\* after any recordSuccess, recordFailure of any kind and sweep.
C5_LockedIsTerminal ==
    [][ \A a \in Loaded :
           health[a].status \in {LOCKED, DISABLED}
               => health'[a].status = health[a].status ]_vars

\* C6: after an account has made the LOCKED transition, selectAccount never
\* returns that account again.
C6_LockedNeverSelected ==
    [][ \A id \in Ids, a \in Loaded :
           Selects(id, a) => a \notin everLocked ]_vars

\* C7: immediately after recordFailure(account, RATE_LIMIT) the account is in
\* COOLDOWN with cooldownUntil = now + cooldownMs, and selectAccount does not
\* return the account at any time before that cooldownUntil.
C7_RateLimitCoolsDown ==
    [][ \A a \in Loaded :
           /\ Records(a, RATE_LIMIT)
                 => /\ health'[a].status = COOLDOWN
                    /\ health'[a].cooldownUntil = now + cooldownMs
           /\ \A id \in Ids :
                 Selects(id, a) => ~(now < rateLimitedUntil[a]) ]_vars

\* C7 witness: the only account is cooling down after a RATE_LIMIT failure, and
\* a request that asked for an account meanwhile got none.
C7_Witness ==
    /\ accounts = 1
    /\ health[1].status = COOLDOWN
    /\ health[1].lastErrorType = RATE_LIMIT
    /\ now < health[1].cooldownUntil
    /\ rateLimitedUntil[1] = health[1].cooldownUntil
    /\ \E id \in Ids : req[id].pc = "rejected" /\ req[id].error = NoAccounts

\* C8: for every account, after each event at least one of
\* consecutiveSuccesses and consecutiveFailures is 0.
C8_OneCounterIsZero ==
    \A a \in Loaded :
        health[a].consecutiveSuccesses = 0 \/ health[a].consecutiveFailures = 0

\* C8 witness: an account that failed before has a run of successes.
C8_Witness ==
    \E a \in Loaded :
        /\ health[a].lastErrorType # "undefined"
        /\ health[a].consecutiveSuccesses > 0
        /\ health[a].consecutiveFailures = 0

\* the attempt of request id fails with the message in this step
Throws(id, message) ==
    AuthenticateThrows(id, message) \/ ExecutorThrows(id, message)

InFlight(id) == req[id].pc \in {"authenticate", "executor", "backoff"}

\* C9: the retry loop makes at most maxRetries = 3 attempts for one request; an
\* attempt that fails with a transient kind (TIMEOUT, NETWORK, UNKNOWN) is
\* followed by another attempt while fewer than 3 were made, and when the third
\* attempt fails too the request is rejected with the error of that attempt.
C9_AtMostThreeAttempts ==
    /\ [](/\ maxRetries = 3
          /\ \A id \in Ids :
                /\ req[id].attempt <= 3
                /\ req[id].invoked <= 3
                /\ InFlight(id) => req[id].attempt < 3)
    /\ [][ \A id \in Ids, message \in UpstreamMessages :
              (Throws(id, message)
                 /\ classifyError(message) \in {TIMEOUT, NETWORK, UNKNOWN})
                  => /\ req'[id].pc = "backoff"
                     /\ req'[id].lastError = message
                     /\ req'[id].attempt = req[id].attempt ]_vars
    /\ [][ \A id \in Ids :
              req[id].pc = "backoff"
                  => \/ req'[id] = req[id]
                     \/ /\ req[id].attempt + 1 < 3
                        /\ req'[id].attempt = req[id].attempt + 1
                        /\ \/ req'[id].pc = "authenticate"
                           \/ req'[id].pc = "rejected" /\ req'[id].error = NoAccounts
                     \/ /\ req[id].attempt + 1 = 3
                        /\ req'[id].attempt = 3
                        /\ req'[id].pc = "rejected"
                        /\ req'[id].error = req[id].lastError
                        /\ req'[id].invoked = req[id].invoked ]_vars

\* C9 witness: a request was rejected after three attempts that each reached
\* the executor, with the transient error of the third.
C9_Witness ==
    \E id \in Ids :
        /\ req[id].pc = "rejected"
        /\ req[id].attempt = 3
        /\ req[id].invoked = 3
        /\ req[id].error = req[id].lastError
        /\ classifyError(req[id].error) \in {TIMEOUT, NETWORK, UNKNOWN}

\* C10: when an attempt fails with an error classified AUTH or NOT_FOUND the
\* request is rejected with that error at once, and nothing more happens for
\* it: no attempt, no selection of an account, no call of the executor.
C10_AuthAndNotFoundNotRetried ==
    /\ [][ \A id \in Ids, message \in UpstreamMessages :
              (Throws(id, message) /\ classifyError(message) \in {AUTH, NOT_FOUND})
                  => /\ req'[id].pc = "rejected"
                     /\ req'[id].error = message
                     /\ req'[id].attempt = req[id].attempt
                     /\ req'[id].account = req[id].account
                     /\ req'[id].invoked = req[id].invoked ]_vars
    /\ [][ \A id \in Ids :
              (req[id].pc = "rejected"
                 /\ classifyError(req[id].error) \in {AUTH, NOT_FOUND})
                  => req'[id] = req[id] ]_vars

\* C10 witness: the second attempt of a request failed with an AUTH or
\* NOT_FOUND error and the request stands rejected with it.
C10_Witness ==
    \E id \in Ids :
        /\ req[id].pc = "rejected"
        /\ req[id].attempt = 1
        /\ classifyError(req[id].error) \in {AUTH, NOT_FOUND}
        /\ req[id].error = req[id].lastError

----------------------------------------------------------------------------
\* withTimeout(promise, ms, operation)

\* an input of the race settles with the outcome: the race takes it if it is the
\* first, and then the finally callback clears the timer
settle(c, outcome) ==
    [ c EXCEPT
        !.returned = race(c.returned, outcome),
        !.timer = IF c.returned.state = "pending" THEN clearTimeout(c.timer) ELSE @,
        !.settlements = IF race(c.returned, outcome) # c.returned THEN @ + 1 ELSE @ ]

\* the call: the timer is set, the race begins; a promise that is settled
\* already is taken by the race before any timer callback can run
WithTimeout(promise, ms, operation) ==
    /\ call.timer = "none"
    /\ now + ms <= MaxTime
    /\ LET armed == [ call EXCEPT
                        !.promise = promise,
                        !.ms = ms,
                        !.operation = operation,
                        !.timer = "armed",
                        !.deadline = now + ms ]
       IN  call' = IF promise.state = "pending" THEN armed
                   ELSE settle(armed, promise)
    /\ UNCHANGED <<now, pool, classified, http, storage, registry>>

\* the promise passed in settles
PromiseSettles(outcome) ==
    /\ call.timer # "none"
    /\ call.promise.state = "pending"
    /\ call' = settle([call EXCEPT !.promise = outcome], outcome)
    /\ UNCHANGED <<now, pool, classified, http, storage, registry>>

\* the callback of setTimeout, not before ms have passed
TimerFires ==
    /\ call.timer = "armed"
    /\ now >= call.deadline
    /\ LET reason == rejected(timedOut(call.operation, call.ms))
       IN  call' = settle([call EXCEPT !.timer = "fired", !.timeout = reason], reason)
    /\ UNCHANGED <<now, pool, classified, http, storage, registry>>

InitTimeout == Unused /\ Untouched

NextTimeout ==
    \/ \E promise \in {pending} \cup Outcomes, ms \in Delays, operation \in Operations :
          WithTimeout(promise, ms, operation)
    \/ \E outcome \in Outcomes : PromiseSettles(outcome)
    \/ TimerFires
    \/ Tick

\* time passes and a timer that is due fires
SpecTimeout ==
    InitTimeout /\ [][NextTimeout]_vars /\ WF_vars(Tick) /\ WF_vars(TimerFires)

----------------------------------------------------------------------------
\* classifyError and isTransientError, applied to one error

\* const errorType = classifyError(error)
ClassifyError ==
    /\ classified.pc = "thrown"
    /\ classified' = [ classified EXCEPT
                         !.pc = "classified",
                         !.errorType = classifyError(classified.message) ]
    /\ UNCHANGED <<now, pool, call, http, storage, registry>>

\* isTransientError(errorType)
IsTransientError ==
    /\ classified.pc = "classified"
    /\ classified' = [ classified EXCEPT
                         !.pc = "decided",
                         !.transient = isTransientError(classified.errorType) ]
    /\ UNCHANGED <<now, pool, call, http, storage, registry>>

\* an error with one of the messages was thrown
InitErrors ==
    /\ Unused
    /\ call = NotCalled
    /\ http = NoRequest
    /\ Unopened
    /\ \E message \in Messages :
          classified = [Unclassified EXCEPT !.pc = "thrown", !.message = message]

NextErrors == ClassifyError \/ IsTransientError

SpecErrors == InitErrors /\ [][NextErrors]_vars

----------------------------------------------------------------------------
\* TwitterController and the response envelope

\* the routes whose handlers call wrap
Endpoints ==
    { "tweets/:username", "tweets/:username/latest", "tweets/:username/replies",
      "search", "profile/:username", "followers/:username",
      "following/:username", "tweet/:id" }

\* ok(data, message) and fail(message, errors), without data and errors
ok(message) == [success |-> TRUE, message |-> message]
fail(message) == [success |-> FALSE, message |-> message]

\* new HttpException(response, status)
HttpException(message, status) == [status |-> status, message |-> message]

\* the catch block of wrap: the HttpException it throws for an error with the
\* message.  The messages of the model are shorter than 300 characters, so
\* message.slice(0, 300) is the whole message.
wrap(message) ==
    LET errorType == classifyError(message)
        status == errorTypeToHttpStatus(errorType)
    IN  HttpException(message, status)

\* ApiExceptionFilter.catch for an HttpException whose response is an object
\* with a string message: what it sends
catch(exception) ==
    [status |-> exception.status, body |-> fail(exception.message)]

\* a request reaches a handler, which awaits wrap(fn)
Get(endpoint) ==
    /\ http.pc = "none"
    /\ http' = [http EXCEPT !.pc = "pending", !.endpoint = endpoint]
    /\ UNCHANGED <<now, pool, call, classified, storage, registry>>

\* GET search without q: the handler throws before it calls wrap
SearchWithoutQuery ==
    /\ http.pc = "none"
    /\ LET sent == catch(HttpException("Validation failed", 400))
       IN  http' = [ http EXCEPT
                       !.pc = "responded",
                       !.endpoint = "search",
                       !.status = sent.status,
                       !.body = sent.body ]
    /\ UNCHANGED <<now, pool, call, classified, storage, registry>>

\* fn() returned: the handler returns ok(data, message)
FnReturns ==
    /\ http.pc = "pending"
    /\ http' = [http EXCEPT !.pc = "responded", !.status = 200, !.body = ok("Fetched")]
    /\ UNCHANGED <<now, pool, call, classified, storage, registry>>

\* fn() threw an error with the message: wrap throws the HttpException and the
\* filter sends the envelope
FnThrows(message) ==
    /\ http.pc = "pending"
    /\ LET sent == catch(wrap(message))
       IN  http' = [ http EXCEPT
                       !.pc = "responded",
                       !.thrown = message,
                       !.status = sent.status,
                       !.body = sent.body ]
    /\ UNCHANGED <<now, pool, call, classified, storage, registry>>

InitHttp == Unused /\ Untouched

NextHttp ==
    \/ \E endpoint \in Endpoints : Get(endpoint)
    \/ SearchWithoutQuery
    \/ FnReturns
    \/ \E message \in Messages : FnThrows(message)

SpecHttp == InitHttp /\ [][NextHttp]_vars

----------------------------------------------------------------------------
\* Properties, continued

\* retries remain for request id and an account other than the one of its
\* attempt is eligible in the health map hm
CouldRetryElsewhere(id, hm) ==
    /\ req[id].attempt + 1 < maxRetries
    /\ \E b \in Loaded \ {req[id].account} : eligible(hm, b, now)

\* C11, as claimed: when an attempt fails with an error classified RATE_LIMIT
\* while retries remain and another eligible account exists, the account is
\* cooled down and the request goes on to a further attempt instead of being
\* rejected.
C11_RateLimitRetriedElsewhere ==
    [][ \A id \in Ids, message \in UpstreamMessages :
           (/\ Throws(id, message)
            /\ classifyError(message) = RATE_LIMIT
            /\ CouldRetryElsewhere(id, health'))
               => /\ health'[req[id].account].status = COOLDOWN
                  /\ req'[id].pc = "backoff" ]_vars

\* C11, amended: when an attempt fails with an error classified RATE_LIMIT the
\* account is cooled down until now + cooldownMs and the request is rejected
\* with that error at once, with no further attempt, also while retries remain
\* and another eligible account exists.
C11_RateLimitRejects ==
    /\ [][ \A id \in Ids, message \in UpstreamMessages :
              (Throws(id, message) /\ classifyError(message) = RATE_LIMIT)
                  => /\ health'[req[id].account].status = COOLDOWN
                     /\ health'[req[id].account].cooldownUntil = now + cooldownMs
                     /\ req'[id].pc = "rejected"
                     /\ req'[id].error = message
                     /\ req'[id].attempt = req[id].attempt ]_vars
    /\ [][ \A id \in Ids :
              (req[id].pc = "rejected" /\ classifyError(req[id].error) = RATE_LIMIT)
                  => req'[id] = req[id] ]_vars

\* C11 witness: the first attempt of a request failed with a RATE_LIMIT error
\* on one account, the other account is eligible, and the request stands
\* rejected.
C11_Witness ==
    \E id \in Ids :
        /\ req[id].pc = "rejected"
        /\ req[id].attempt = 0
        /\ classifyError(req[id].error) = RATE_LIMIT
        /\ health[req[id].account].status = COOLDOWN
        /\ CouldRetryElsewhere(id, health)

\* C12, as claimed: when an attempt fails with an error classified
\* ACCOUNT_LOCKED the account becomes LOCKED; the request is retried if retries
\* remain and another eligible account exists, and is rejected only when no
\* other account remains.
C12_LockedRetriedElsewhere ==
    [][ \A id \in Ids, message \in UpstreamMessages :
           (Throws(id, message) /\ classifyError(message) = ACCOUNT_LOCKED)
               => /\ health'[req[id].account].status = LOCKED
                  /\ CouldRetryElsewhere(id, health') => req'[id].pc = "backoff"
                  /\ req'[id].pc = "rejected"
                        => ~\E b \in Loaded \ {req[id].account} :
                               eligible(health', b, now) ]_vars

\* C12, amended: when an attempt fails with an error classified ACCOUNT_LOCKED
\* the account becomes LOCKED and the error reaches the caller at once, with no
\* further attempt, whether or not retries and other eligible accounts remain.
C12_LockedRejects ==
    /\ [][ \A id \in Ids, message \in UpstreamMessages :
              (Throws(id, message) /\ classifyError(message) = ACCOUNT_LOCKED)
                  => /\ health'[req[id].account].status = LOCKED
                     /\ req'[id].pc = "rejected"
                     /\ req'[id].error = message
                     /\ req'[id].attempt = req[id].attempt ]_vars
    /\ [][ \A id \in Ids :
              (req[id].pc = "rejected"
                 /\ classifyError(req[id].error) = ACCOUNT_LOCKED)
                  => req'[id] = req[id] ]_vars

\* C12 witness: the second attempt of a request failed with an ACCOUNT_LOCKED
\* error, the account is LOCKED, the other account is eligible, and the request
\* stands rejected.
C12_Witness ==
    \E id \in Ids :
        /\ req[id].pc = "rejected"
        /\ req[id].attempt = 1
        /\ classifyError(req[id].error) = ACCOUNT_LOCKED
        /\ health[req[id].account].status = LOCKED
        /\ CouldRetryElsewhere(id, health)

\* request id begins an attempt in this step: it leaves the queue, or its
\* backoff ends with retries left
BeginsAttempt(id) ==
    /\ req'[id].pc # req[id].pc
    /\ \/ req[id].pc = "queued"
       \/ req[id].pc = "backoff" /\ req[id].attempt + 1 < maxRetries

\* C13: if selectAccount finds no eligible account at the start of an attempt,
\* the first or a later one, the request is rejected with "No usable accounts
\* available"; the executor is not called in that attempt, no health record
\* changes, and nothing more happens for the request.
C13_NoAccountRejects ==
    /\ [][ \A id \in Ids :
              (BeginsAttempt(id) /\ selectAccount(health, now) = 0)
                  => /\ req'[id].pc = "rejected"
                     /\ req'[id].error = NoAccounts
                     /\ req'[id].invoked = req[id].invoked
                     /\ health' = health ]_vars
    /\ [][ \A id \in Ids :
              (req[id].pc = "rejected" /\ req[id].error = NoAccounts)
                  => /\ req'[id] = req[id]
                     /\ \A i \in 1 .. Len(items') : items'[i].id # id ]_vars

\* C13 witness: a request whose first attempt reached the executor and failed
\* found no eligible account at the start of its second attempt and stands
\* rejected with the message.
C13_Witness ==
    \E id \in Ids :
        /\ req[id].pc = "rejected"
        /\ req[id].error = NoAccounts
        /\ req[id].attempt = 1
        /\ req[id].invoked = 1
        /\ selectAccount(health, now) = 0

\* C14: with one HEALTHY account and a thunk that fails k times (k in 0 .. 2)
\* with a TIMEOUT error and then succeeds, execute resolves, and afterwards the
\* account's record has requestCount = k + 1, consecutiveSuccesses = 1,
\* consecutiveFailures = 0 and status HEALTHY; the request is rejected only
\* when the thunk failed three times.
C14_RetriesThenSucceeds ==
    /\ (accounts = 1 /\ req[1].pc = "resolved")
          => LET k == req[1].attempt
             IN  /\ k \in {0, 1, 2}
                 /\ req[1].invoked = k + 1
                 /\ health[1].requestCount = k + 1
                 /\ health[1].consecutiveSuccesses = 1
                 /\ health[1].consecutiveFailures = 0
                 /\ health[1].status = HEALTHY
    /\ (accounts = 1 /\ req[1].pc = "rejected")
          => /\ req[1].invoked = 3
             /\ classifyError(req[1].error) = TIMEOUT

\* C14 witness: the thunk failed twice with a TIMEOUT error and succeeded the
\* third time.
C14_Witness ==
    /\ accounts = 1
    /\ req[1].pc = "resolved"
    /\ req[1].attempt = 2
    /\ health[1].requestCount = 3
    /\ health[1].lastErrorType = TIMEOUT

\* the promise of request id is settled
Settled(id) == req[id].pc \in {"resolved", "rejected"}

\* C15: every request admitted to the queue is dequeued at most once, and its
\* promise is eventually settled, and settled once: resolved or rejected, it
\* changes no more.
C15_SettledExactlyOnce ==
    /\ [](\A id \in Ids :
            /\ Cardinality({i \in 1 .. Len(items) : items[i].id = id}) <= 1
            /\ req[id].pc = "queued" <=> \E i \in 1 .. Len(items) : items[i].id = id)
    /\ [][ \A id \in Ids :
              req[id].pc \notin {"idle", "queued"} => req'[id].pc # "queued" ]_vars
    /\ [][ \A id \in Ids : Settled(id) => req'[id] = req[id] ]_vars
    /\ \A id \in 1 .. MaxRequests : (req[id].pc = "queued") ~> Settled(id)

\* C15 witness: two requests were admitted; one was resolved by its thunk's
\* return after a retry, the other rejected with the error of its attempt.
C15_Witness ==
    /\ req[1].pc = "resolved"
    /\ req[1].attempt = 1
    /\ req[2].pc = "rejected"
    /\ req[2].error = req[2].lastError
    /\ req[2].invoked = 1
    /\ items = << >>

\* C16: for every account and every instant t, the attempts recorded for the
\* account (successes and failures) with timestamps inside the rate window
\* ending at t are at most maxRequestsPerWindow.
C16_RateLimitRespected ==
    \A a \in Loaded, t \in 1 .. MaxTime :
        Len(SelectSeq(health[a].requestTimestamps,
                      LAMBDA s : s <= t /\ t - s < rateLimitWindow))
            <= maxRequestsPerWindow

\* C17: the promise withTimeout returns settles exactly once: with the outcome
\* of the promise passed in when that settles before the deadline, otherwise with
\* a rejection whose message is "<operation> timed out after <ms>ms"; when the
\* promise passed in settles after the timer fired the outcome stays as it is.
C17_TimeoutSettlesOnce ==
    /\ [](/\ call.settlements <= 1
          /\ call.timer = "armed" => call.returned.state = "pending"
          /\ call.timer = "cleared"
                => /\ call.promise.state # "pending"
                   /\ call.returned = call.promise
          /\ call.timer = "fired"
                => /\ now >= call.deadline
                   /\ call.returned.state = "rejected"
                   /\ call.returned.value
                        = <<call.operation, " timed out after ", call.ms, "ms">>)
    /\ [][ (/\ call.promise.state = "pending"
             /\ call'.promise.state # "pending"
             /\ now < call'.deadline)
                => call'.returned = call'.promise ]_vars
    /\ [][ call.returned.state # "pending" => call'.returned = call.returned ]_vars
    /\ (call.timer # "none") ~> (call.returned.state # "pending")

\* C17 witness: the timer fired first and the promise passed in was fulfilled
\* afterwards; the returned promise stays rejected with the timeout message.
C17_Witness ==
    /\ call.timer = "fired"
    /\ call.promise.state = "fulfilled"
    /\ call.returned.state = "rejected"
    /\ call.returned.value = <<"slow-op", " timed out after ", 1, "ms">>
    /\ call.settlements = 1

\* C18: for every configured queue capacity, getStats().queue.maxSize is that
\* capacity and getStats().queue.depth is the number of requests in the queue.
C18_StatsReportCapacity ==
    /\ getStats.queue.maxSize = maxQueueSize
    /\ getStats.queue.depth = Len(items)

\* the rules in the order claimed, and the keywords of each
RuleOrder == <<TIMEOUT, NETWORK, RATE_LIMIT, AUTH, NOT_FOUND, ACCOUNT_LOCKED>>

Keywords(kind) ==
    CASE kind = TIMEOUT -> {"timeout", "timed out"}
      [] kind = NETWORK -> {"network", "fetch failed", "connection", "socket",
                            "econnreset", "enotfound"}
      [] kind = RATE_LIMIT -> {"rate limit", "too many requests", "429"}
      [] kind = AUTH -> {"unauthorized", "401", "authentication failed"}
      [] kind = NOT_FOUND -> {"not found", "404"}
      [] kind = ACCOUNT_LOCKED -> {"locked", "suspended", "verify your identity"}

\* the rule of the kind matches the message: one of its keywords occurs in it
\* (for AUTH also "status" together with "403")
Matches(message, kind) ==
    \/ \E keyword \in Keywords(kind) : includes(message, keyword)
    \/ kind = AUTH /\ includes(message, "status") /\ includes(message, "403")

\* the rules that match the message, by their place in the order
Matching(message) == {i \in 1 .. Len(RuleOrder) : Matches(message, RuleOrder[i])}

\* C19: classifyError returns the kind of the first rule, in the order TIMEOUT,
\* NETWORK, RATE_LIMIT, AUTH, NOT_FOUND, ACCOUNT_LOCKED, that matches the
\* lower-cased message, and UNKNOWN when none matches; isTransientError is true
\* exactly for TIMEOUT, NETWORK and UNKNOWN.
C19_FirstRuleWins ==
    /\ classified.pc \in {"classified", "decided"}
          => LET hits == Matching(classified.message)
             IN  IF hits = {} THEN classified.errorType = UNKNOWN
                 ELSE \E i \in hits :
                        /\ \A j \in hits : i <= j
                        /\ classified.errorType = RuleOrder[i]
    /\ classified.pc = "decided"
          => (classified.transient
                <=> classified.errorType \in {TIMEOUT, NETWORK, UNKNOWN})

\* C19 witness: a message matching the RATE_LIMIT rule and a later rule was
\* classified RATE_LIMIT and found not transient.
C19_Witness ==
    /\ classified.pc = "decided"
    /\ Cardinality(Matching(classified.message)) = 2
    /\ 3 \in Matching(classified.message)
    /\ \A i \in Matching(classified.message) : i >= 3
    /\ classified.errorType = RATE_LIMIT
    /\ ~classified.transient

\* C20: an error a pool operation raises reaches the HTTP caller as a failure
\* envelope (success = false) whose status follows the kind of the message:
\* RATE_LIMIT 429, AUTH 401, NOT_FOUND 404, ACCOUNT_LOCKED 503, TIMEOUT 502,
\* NETWORK 502, UNKNOWN 500; "request timed out" gives 502.
C20_ErrorEnvelopeStatus ==
    (http.pc = "responded" /\ http.thrown # "undefined")
        => LET kind == classifyError(http.thrown)
           IN  /\ http.body.success = FALSE
               /\ kind = RATE_LIMIT => http.status = 429
               /\ kind = AUTH => http.status = 401
               /\ kind = NOT_FOUND => http.status = 404
               /\ kind = ACCOUNT_LOCKED => http.status = 503
               /\ kind = TIMEOUT => http.status = 502
               /\ kind = NETWORK => http.status = 502
               /\ kind = UNKNOWN => http.status = 500
               /\ http.thrown = "request timed out" => http.status = 502

\* C20 witness: GET tweets/:username whose pool operation failed with "request
\* timed out" was answered 502 with a failure envelope.
C20_Witness ==
    /\ http.pc = "responded"
    /\ http.endpoint = "tweets/:username"
    /\ http.thrown = "request timed out"
    /\ http.status = 502
    /\ http.body.success = FALSE

----------------------------------------------------------------------------
\* AccountsStore.saveCookies, called directly on a cookie cache that earlier
\* calls of saveCookies (of the service or of the login script) have written

MaxSaves == 2

TwitterAccounts ==
    { [username |-> "alice", password |-> "pa", email |-> "alice@x.com",
       twoFactorSecret |-> "undefined"],
      [username |-> "bob", password |-> "pb", email |-> "bob@x.com",
       twoFactorSecret |-> "JBSWY3DP"],
      [username |-> "carol", password |-> "pc", email |-> "carol@x.com",
       twoFactorSecret |-> "undefined"] }

CookieLists == { << >>, <<"ct0=1">>, <<"ct0=1", "auth_token=2">> }

\* the entries a call of saveCookies writes
CookieEntries ==
    { CookieEntry(account, cookies) : account \in TwitterAccounts, cookies \in CookieLists }

\* the files the upserts leave: at most one entry per username; the file may
\* also be missing, or hold a text JSON.parse rejects
CookieFiles ==
    { NoFile, [exists |-> TRUE, json |-> FALSE, rows |-> << >>] }
    \cup { [exists |-> TRUE, json |-> TRUE, rows |-> stringify(entries)] :
             entries \in { e \in UNION { [1 .. n -> CookieEntries] : n \in 0 .. 2 } :
                              \A i, j \in DOMAIN e :
                                 e[i].username = e[j].username => i = j } }

SaveCookies(account, cookies) ==
    /\ saved.calls < MaxSaves
    /\ cookiesFile' = saveCookies(cookiesFile, account, cookies)
    /\ saved' = [calls |-> saved.calls + 1, account |-> account, cookies |-> cookies,
                 before |-> cookiesFile]
    /\ UNCHANGED <<now, pool, call, classified, http, parsed, ladder, registry>>

InitCookies ==
    /\ Unused
    /\ call = NotCalled
    /\ classified = Unclassified
    /\ http = NoRequest
    /\ cookiesFile \in CookieFiles
    /\ saved = NothingSaved
    /\ parsed = NothingParsed
    /\ ladder = NotAuthenticating
    /\ selected = NoneSelected
    /\ sweptAt = 1
    /\ recorded = NoneRecorded

NextCookies ==
    \E account \in TwitterAccounts, cookies \in CookieLists : SaveCookies(account, cookies)

SpecCookies == InitCookies /\ [][NextCookies]_vars

----------------------------------------------------------------------------
\* parseAccountsFromTxt, given a text of one or two lines

MaxFields == 9

\* what a line of the accounts file holds in each of its fields
Usernames == { << >>, <<"u", "1">> }
Passwords == { << >>, <<"p", "w">> }
Emails == { << >>, <<"e", "@", "x">> }
EmailPasswords == { << >>, <<"q">> }
SecretParts == { << >>, <<"s">>, <<"o", "/", "t">>, <<" ">> }
Ct0s == { << >>, <<"c", "0">> }
AuthTokens == { << >>, <<"t", "k">> }

\* the lines of n fields
Fields(n) ==
    { <<username, password, email, emailPassword>> \o secret \o <<ct0, authToken>> :
        username \in Usernames, password \in Passwords, email \in Emails,
        emailPassword \in EmailPasswords, secret \in [1 .. n - 6 -> SecretParts],
        ct0 \in Ct0s, authToken \in AuthTokens }

\* what stands before the first field: nothing, white space, or the comment sign
Prefixes == { << >>, <<" ">>, <<"#">> }

\* the line of the test "parses the 7-field format correctly"
SecondLine ==
    <<"m", "y", ":", "p", ":", "m", "@", "t", ":", "e", ":", "2", ":", "c", ":", "a">>

\* the text of a line with these fields, alone or followed by the second line
render(prefix, fields, second) ==
    prefix \o join(fields, ":")
        \o (IF second THEN <<"\r", "\n">> \o SecondLine ELSE << >>)

ParseAccountsFromTxt ==
    /\ parsed.pc = "given"
    /\ parsed' = [parsed EXCEPT !.pc = "parsed",
                                !.accounts = parseAccountsFromTxt(parsed.raw)]
    /\ UNCHANGED <<now, pool, call, classified, http, cookiesFile, saved, ladder, registry>>

InitParser ==
    /\ Unused
    /\ call = NotCalled
    /\ classified = Unclassified
    /\ http = NoRequest
    /\ cookiesFile = NoFile
    /\ saved = NothingSaved
    /\ ladder = NotAuthenticating
    /\ selected = NoneSelected
    /\ sweptAt = 1
    /\ recorded = NoneRecorded
    /\ \E n \in 6 .. MaxFields :
          \E fields \in Fields(n), prefix \in Prefixes, second \in BOOLEAN :
             parsed = [pc |-> "given", prefix |-> prefix, fields |-> fields,
                       second |-> second, raw |-> render(prefix, fields, second),
                       accounts |-> << >>]

NextParser == ParseAccountsFromTxt

SpecParser == InitParser /\ [][NextParser]_vars

----------------------------------------------------------------------------
\* The health registry under any number of attempts in flight: selectAccount
\* picks the account of an attempt, the attempt ends in recordSuccess or in
\* recordFailure, and the health check interval fires when it is due.

MaxAttempts == 4

\* setInterval(() => this.runHealthCheck(), 2 * 60_000), in units of the cooldown
healthCheckInterval == 1

\* the attempts begun so far
attempts ==
    LET RECURSIVE sum(_)
        sum(a) == IF a = 0 THEN 0
                  ELSE sum(a - 1) + selected.inFlight[a]
                       + (IF a \in DOMAIN health THEN health[a].requestCount ELSE 0)
    IN  sum(NumAccounts)

\* runWithRetry reaches selectAccount
SelectAccount ==
    /\ attempts < MaxAttempts
    /\ selected' =
         LET account == selectAccount(health, now)
         IN  [account |-> account,
              inFlight |-> IF account = 0 THEN selected.inFlight
                           ELSE [selected.inFlight EXCEPT ![account] = @ + 1]]
    /\ UNCHANGED <<now, pool, call, classified, http, storage, sweptAt, recorded>>

\* the attempt of some request on account a returns
RecordSuccess(a) ==
    /\ selected.inFlight[a] > 0
    /\ health' = [health EXCEPT ![a] = recordSuccess(@, now)]
    /\ selected' = [selected EXCEPT !.inFlight[a] = @ - 1]
    /\ recorded' = [recorded EXCEPT !.sinceFailure[a] = @ + 1,
                                    !.sinceProbation[a] = @ + 1]
    /\ UNCHANGED <<now, accounts, items, nextId, req, activeOps, observed, everLocked,
                   rateLimitedUntil, throws, call, classified, http, storage, sweptAt>>

\* the attempt of some request on account a throws an error of this type
RecordFailure(a, errorType) ==
    /\ selected.inFlight[a] > 0
    /\ health' = [health EXCEPT ![a] = recordFailure(@, errorType, now)]
    /\ selected' = [selected EXCEPT !.inFlight[a] = @ - 1]
    /\ recorded' = [recorded EXCEPT !.sinceFailure[a] = 0]
    /\ UNCHANGED <<now, accounts, items, nextId, req, activeOps, observed, everLocked,
                   rateLimitedUntil, throws, call, classified, http, storage, sweptAt>>

\* the health check interval fires: runHealthCheck
HealthCheckInterval ==
    /\ now >= sweptAt + healthCheckInterval
    /\ health' = [a \in DOMAIN health |-> healthCheck(health[a], now)]
    /\ sweptAt' = now
    /\ recorded' =
         [recorded EXCEPT
            !.sinceProbation =
                [a \in 1 .. NumAccounts |->
                    IF /\ a \in DOMAIN health
                       /\ health[a].status # PROBATION
                       /\ healthCheck(health[a], now).status = PROBATION
                    THEN 0 ELSE @[a]]]
    /\ UNCHANGED <<now, accounts, items, nextId, req, activeOps, observed, everLocked,
                   rateLimitedUntil, throws, call, classified, http, storage, selected>>

\* Date.now() moves on, up to the time the interval is due
TickToInterval ==
    /\ now < sweptAt + healthCheckInterval
    /\ Tick

NextHealth ==
    \/ SelectAccount
    \/ \E a \in DOMAIN health : RecordSuccess(a)
    \/ \E a \in DOMAIN health, errorType \in ErrorType : RecordFailure(a, errorType)
    \/ HealthCheckInterval
    \/ TickToInterval

SpecHealth == Init /\ [][NextHealth]_vars

----------------------------------------------------------------------------
\* TwitterClientPoolService.authenticate, for two attempts on two accounts at
\* the same time.  A step of the ladder is recorded with its outcome:
\* "pending" while its await is open, then "verified", "failed" (verifySession
\* returned false) or "threw".

\* the account of each of the two attempts
SessionAccount(s) ==
    CHOOSE account \in TwitterAccounts :
        account.username = (IF s = 1 THEN "alice" ELSE "bob")

\* what scraper.getCookies() resolves with after a verified session
FreshCookies == { <<"ct0=9">>, <<"ct0=9", "auth_token=8">> }

\* the cookie cache before the attempts: no more than one entry
AuthFiles == { file \in CookieFiles : Len(file.rows) <= 1 }

nextStep_LoginFirst(pc, cached, tokens) ==
    IF pc = "idle" THEN "login"
    ELSE IF pc = "login" THEN (IF cached THEN "cookies" ELSE IF tokens THEN "tokens" ELSE "login")
    ELSE IF pc = "cookies" /\ tokens THEN "tokens"
    ELSE "login"

\* the step authenticate goes to from where it stands: saved cookies when
\* loadCookies gave some, then ct0 + auth_token when the account has both, then
\* the credential login
nextStep(pc, cached, tokens) ==
    IF pc = "idle" /\ cached THEN "cookies"
    ELSE IF pc \in {"idle", "cookies"} /\ tokens THEN "tokens"
    ELSE "login"

\* the step in progress gets its outcome
outcome(session, result) ==
    [session.steps EXCEPT ![Len(session.steps)].outcome = result]

\* authenticate goes on to the step after the one that failed
advance(session) ==
    LET step == nextStep(session.pc, session.cached, session.tokens)
    IN  [session EXCEPT
           !.pc = step,
           !.steps = Append(outcome(session, "failed"),
                            [step |-> step, outcome |-> "pending"])]

\* this.persistCookies(scraper, account); return;  persistCookies runs up to its
\* await of scraper.getCookies() and authenticate returns
verifiedReturn(session) ==
    [session EXCEPT !.pc = "returned", !.steps = outcome(session, "verified"),
                    !.persist = "pending"]

\* authenticate is called: loadCookies, then the first await of the ladder
Authenticate(s, tokens) ==
    /\ ladder[s].pc = "idle"
    /\ LET cached == Len(loadCookies(cookiesFile, SessionAccount(s).username)) > 0
           step == nextStep("idle", cached, tokens)
       IN  ladder' = [ladder EXCEPT ![s] =
                        [@ EXCEPT !.pc = step,
                                  !.username = SessionAccount(s).username,
                                  !.cached = cached,
                                  !.tokens = tokens,
                                  !.steps = <<[step |-> step, outcome |-> "pending"]>>]]
    /\ UNCHANGED <<now, pool, call, classified, http, cookiesFile, saved, parsed, registry>>

\* scraper.setCookies rejects: authenticate throws
SetCookiesRejects(s) ==
    /\ ladder[s].pc \in {"cookies", "tokens"}
    /\ ladder' = [ladder EXCEPT ![s] =
                    [@ EXCEPT !.pc = "threw", !.steps = outcome(ladder[s], "threw")]]
    /\ UNCHANGED <<now, pool, call, classified, http, cookiesFile, saved, parsed, registry>>

\* verifySession returns, after the saved cookies or the tokens were set
VerifySession(s, usable) ==
    /\ ladder[s].pc \in {"cookies", "tokens"}
    /\ ladder' = [ladder EXCEPT ![s] =
                    IF usable THEN verifiedReturn(@) ELSE advance(@)]
    /\ UNCHANGED <<now, pool, call, classified, http, cookiesFile, saved, parsed, registry>>

\* withTimeout(scraper.login(...)) settles; the session check follows a login
\* that resolved
LoginSettles(s, resolves) ==
    /\ ladder[s].pc = "login"
    /\ ladder' = [ladder EXCEPT ![s] =
                    IF resolves THEN [@ EXCEPT !.pc = "verify"]
                    ELSE [@ EXCEPT !.pc = "threw",
                                   !.steps = outcome(ladder[s], "threw")]]
    /\ UNCHANGED <<now, pool, call, classified, http, cookiesFile, saved, parsed, registry>>

\* verifySession returns after the login
LoginVerified(s, usable) ==
    /\ ladder[s].pc = "verify"
    /\ ladder' = [ladder EXCEPT ![s] =
                    IF usable THEN verifiedReturn(@)
                    ELSE [@ EXCEPT !.pc = "threw",
                                   !.steps = outcome(ladder[s], "failed")]]
    /\ UNCHANGED <<now, pool, call, classified, http, cookiesFile, saved, parsed, registry>>

\* scraper.getCookies() resolves in persistCookies: saveCookies
GetCookiesResolves(s, cookies) ==
    /\ ladder[s].persist = "pending"
    /\ cookiesFile' = saveCookies(cookiesFile, SessionAccount(s), cookies)
    /\ ladder' = [ladder EXCEPT ![s].persist = "saved", ![s].fresh = cookies]
    /\ UNCHANGED <<now, pool, call, classified, http, saved, parsed, registry>>

\* scraper.getCookies() rejects in persistCookies, or saveCookies throws: the
\* catch block logs it
GetCookiesRejects(s) ==
    /\ ladder[s].persist = "pending"
    /\ ladder' = [ladder EXCEPT ![s].persist = "failed"]
    /\ UNCHANGED <<now, pool, call, classified, http, cookiesFile, saved, parsed, registry>>

\* runWithRetry goes on after its await of authenticate: activeOps++ and the
\* executor is called
ThunkStarts(s) ==
    /\ ladder[s].pc = "returned"
    /\ ~ladder[s].thunk
    /\ ladder' = [ladder EXCEPT ![s].thunk = TRUE]
    /\ UNCHANGED <<now, pool, call, classified, http, cookiesFile, saved, parsed, registry>>

InitAuth ==
    /\ Unused
    /\ call = NotCalled
    /\ classified = Unclassified
    /\ http = NoRequest
    /\ cookiesFile \in AuthFiles
    /\ saved = NothingSaved
    /\ parsed = NothingParsed
    /\ ladder = NotAuthenticating
    /\ selected = NoneSelected
    /\ sweptAt = 1
    /\ recorded = NoneRecorded

NextAuth ==
    \E s \in 1 .. 2 :
        \/ \E tokens \in BOOLEAN : Authenticate(s, tokens)
        \/ SetCookiesRejects(s)
        \/ \E usable \in BOOLEAN : VerifySession(s, usable)
        \/ \E resolves \in BOOLEAN : LoginSettles(s, resolves)
        \/ \E usable \in BOOLEAN : LoginVerified(s, usable)
        \/ \E cookies \in FreshCookies : GetCookiesResolves(s, cookies)
        \/ GetCookiesRejects(s)
        \/ ThunkStarts(s)

SpecAuth == InitAuth /\ [][NextAuth]_vars

----------------------------------------------------------------------------
\* Properties of the AccountsStore

\* the entries of file, but for those of username
OtherEntries(file, username) ==
    SelectSeq(readCookiesFile(file), LAMBDA e : e.username # username)

RECURSIVE afterLastSlash(_)
afterLastSlash(s) ==
    IF Len(s) = 0 \/ s[Len(s)] = "/" THEN << >>
    ELSE afterLastSlash(SubSeq(s, 1, Len(s) - 1)) \o <<s[Len(s)]>>

\* s without the white space around it; undefined when nothing is left
Reduced(s) ==
    LET inner == {i \in 1 .. Len(s) : s[i] \notin whitespace}
    IN  IF inner = {} THEN absent
        ELSE SubSeq(s, CHOOSE i \in inner : \A j \in inner : i <= j,
                       CHOOSE i \in inner : \A j \in inner : j <= i)

\* the account the fields of a line stand for; an empty token is undefined
AccountOf(f) ==
    [ username |-> f[1], password |-> f[2], email |-> f[3], emailPassword |-> f[4],
      twoFactorSecret |->
          Reduced(afterLastSlash(Reduced(join(SubSeq(f, 5, Len(f) - 2), ":")))),
      ct0 |-> IF f[Len(f) - 1] = << >> THEN absent ELSE f[Len(f) - 1],
      authToken |-> IF f[Len(f)] = << >> THEN absent ELSE f[Len(f)] ]

\* the account of the second line
SecondAccount ==
    [ username |-> <<"m", "y">>, password |-> <<"p">>, email |-> <<"m", "@", "t">>,
      emailPassword |-> <<"e">>, twoFactorSecret |-> <<"2">>, ct0 |-> <<"c">>,
      authToken |-> <<"a">> ]

\* the accounts of the second line, when the text has one
Rest == IF parsed.second THEN <<SecondAccount>> ELSE << >>

\* C22 as stated: a line that is no comment is skipped when it has fewer than
\* 7 fields, and otherwise yields the account of its fields.
C22_SevenFieldsYieldAccount ==
    (parsed.pc = "parsed" /\ parsed.prefix # <<"#">>) =>
        parsed.accounts =
            (IF Len(parsed.fields) < 7 THEN << >> ELSE <<AccountOf(parsed.fields)>>)
              \o Rest

\* C22, amended: a line that is no comment is skipped when it has fewer than 7
\* fields or when its username, password or email is empty, and otherwise
\* yields the account with username, password, email, emailPassword = fields
\* 0..3, ct0 = field n-2, authToken = field n-1 and the 2FA secret = fields
\* 4..n-3 re-joined with ':' and reduced to the part after its last '/'.
C22_SkipsShortOrIncomplete ==
    (parsed.pc = "parsed" /\ parsed.prefix # <<"#">>) =>
        parsed.accounts =
            (IF Len(parsed.fields) < 7
                \/ parsed.fields[1] = << >>
                \/ parsed.fields[2] = << >>
                \/ parsed.fields[3] = << >>
             THEN << >>
             ELSE <<AccountOf(parsed.fields)>>)
              \o Rest

\* a line of 9 fields whose 2FA secret holds colons and a "/" was parsed
C22_Witness ==
    /\ parsed.pc = "parsed"
    /\ parsed.prefix = <<" ">>
    /\ Len(parsed.fields) = 9
    /\ parsed.fields[5] = <<"o", "/", "t">>
    /\ parsed.fields[7] = <<"s">>
    /\ Len(parsed.accounts) = 1
    /\ parsed.accounts[1].twoFactorSecret = <<"t", ":", ":", "s">>

----------------------------------------------------------------------------
\* Properties of the health registry

\* C23 as stated: a recordFailure of kind AUTH or NOT_FOUND never changes the
\* status or the cooldownUntil of the account, whatever its counters were.
C23_AuthNeverChangesStatus ==
    [][\A a \in Loaded, errorType \in {AUTH, NOT_FOUND} :
          RecordFailure(a, errorType) =>
              /\ health'[a].status = health[a].status
              /\ health'[a].cooldownUntil = health[a].cooldownUntil]_vars

\* C23, amended: a recordFailure of kind AUTH or NOT_FOUND that leaves
\* consecutiveFailures below MaxConsecutiveFailures never changes the status or
\* the cooldownUntil of the account, from any prior health state; it changes
\* no other account and only bumps the counters, the time stamps, the
\* last-error fields and the success rate.
C23_AuthBelowThresholdKeepsStatus ==
    [][\A a \in Loaded, errorType \in {AUTH, NOT_FOUND} :
          (/\ RecordFailure(a, errorType)
           /\ health[a].consecutiveFailures + 1 < maxConsecutiveFailures) =>
              /\ health'[a].status = health[a].status
              /\ health'[a].cooldownUntil = health[a].cooldownUntil
              /\ health'[a].requestCount = health[a].requestCount + 1
              /\ health'[a].consecutiveFailures = health[a].consecutiveFailures + 1
              /\ health'[a].lastErrorType = errorType
              /\ \A b \in Loaded \ {a} : health'[b] = health[b]]_vars

\* an AUTH failure was recorded, below the threshold, on an account that a rate
\* limit had cooled down, and the account is cooling down as before
C23_Witness ==
    \E a \in Loaded :
        /\ health[a].status = COOLDOWN
        /\ health[a].lastErrorType = AUTH
        /\ health[a].consecutiveFailures = 2
        /\ health[a].cooldownUntil = 2
        /\ health[a].lastErrorTime = 2

\* the request time stamps of account a inside the rate window that ends now
InsideWindow(a) ==
    {i \in DOMAIN health[a].requestTimestamps :
        now - health[a].requestTimestamps[i] < rateLimitWindow}

\* account a is neither locked nor disabled, is not cooling down with its
\* cooldownUntil ahead, and has room in the rate window
Admissible(a) ==
    /\ health[a].status \notin {LOCKED, DISABLED}
    /\ ~(health[a].status = COOLDOWN /\ now < health[a].cooldownUntil)
    /\ Cardinality(InsideWindow(a)) < maxRequestsPerWindow

\* C24: selectAccount returns only an account that at that moment is neither
\* LOCKED nor DISABLED, is not in COOLDOWN with now < cooldownUntil, and has
\* fewer than MaxRequestsPerWindow time stamps inside the rate window; it
\* returns nothing exactly when no loaded account is like that.
C24_SelectsOnlyAdmissible ==
    [][SelectAccount =>
          /\ selected'.account # 0 =>
                (selected'.account \in Loaded /\ Admissible(selected'.account))
          /\ selected'.account = 0 <=> (\A a \in Loaded : ~Admissible(a))]_vars

\* the first account has filled its rate window, a call of selectAccount has
\* just passed it over for the second, and nothing else is in flight
C24_Witness ==
    /\ accounts = 2
    /\ health[1].status = HEALTHY
    /\ Cardinality(InsideWindow(1)) = maxRequestsPerWindow
    /\ health[2].requestCount = 0
    /\ selected.account = 2
    /\ selected.inFlight = [a \in 1 .. NumAccounts |-> IF a = 2 THEN 1 ELSE 0]

\* the place of account a in the order of selection
Rank(a) ==
    <<IF health[a].status = HEALTHY THEN 0 ELSE 1,
      health[a].consecutiveFailures, health[a].lastUsed>>

\* r comes strictly before s, field by field
Precedes(r, s) ==
    \/ r[1] < s[1]
    \/ r[1] = s[1] /\ r[2] < s[2]
    \/ r[1] = s[1] /\ r[2] = s[2] /\ r[3] < s[3]

\* C25: the account selectAccount returns is minimal among the eligible ones in
\* the order HEALTHY before non-HEALTHY, then fewer consecutiveFailures, then
\* smaller lastUsed; so it is HEALTHY whenever an eligible HEALTHY account
\* exists.
C25_SelectsMinimal ==
    [][(SelectAccount /\ selected'.account # 0) =>
          /\ \A b \in Loaded :
                Admissible(b) => ~Precedes(Rank(b), Rank(selected'.account))
          /\ (\E b \in Loaded : Admissible(b) /\ health[b].status = HEALTHY)
                => health[selected'.account].status = HEALTHY]_vars

\* selectAccount has just preferred the second account, HEALTHY with a failure
\* behind it, to the first, on PROBATION with none
C25_Witness ==
    /\ accounts = 2
    /\ health[1].status = PROBATION
    /\ health[1].consecutiveFailures = 0
    /\ health[2].status = HEALTHY
    /\ health[2].consecutiveFailures = 1
    /\ selected.account = 2
    /\ selected.inFlight = [a \in 1 .. NumAccounts |-> IF a = 2 THEN 1 ELSE 0]

C27_PromotedAtThirdSuccess ==
    [][\A a \in Loaded :
          /\ RecordSuccess(a) =>
                /\ health'[a].consecutiveSuccesses = health[a].consecutiveSuccesses + 1
                /\ health'[a].status =
                      IF health[a].status = PROBATION
                         /\ health'[a].consecutiveSuccesses >= 3
                      THEN HEALTHY
                      ELSE health[a].status
          /\ (health[a].status = PROBATION /\ health'[a].status = HEALTHY)
                => RecordSuccess(a)]_vars

\* an account that a rate limit had cooled down is HEALTHY again, its third
\* success in a row just recorded
C27_Witness ==
    \E a \in Loaded :
        /\ health[a].status = HEALTHY
        /\ health[a].lastErrorType = RATE_LIMIT
        /\ health[a].consecutiveSuccesses = 3
        /\ health[a].requestCount = 4

\* C28: for an account in HEALTHY or PROBATION, a recordFailure of a kind other
\* than ACCOUNT_LOCKED and RATE_LIMIT moves it to COOLDOWN exactly when the
\* incremented consecutiveFailures reaches maxConsecutiveFailures; below that
\* the status and cooldownUntil are unchanged.
C28_CoolsAtThreshold ==
    [][\A a \in Loaded, errorType \in ErrorType \ {ACCOUNT_LOCKED, RATE_LIMIT} :
          (RecordFailure(a, errorType) /\ health[a].status \in {HEALTHY, PROBATION}) =>
              /\ health'[a].consecutiveFailures = health[a].consecutiveFailures + 1
              /\ health'[a].consecutiveFailures <= maxConsecutiveFailures
              /\ IF health'[a].consecutiveFailures = maxConsecutiveFailures
                 THEN /\ health'[a].status = COOLDOWN
                      /\ health'[a].cooldownUntil = now + cooldownMs
                 ELSE /\ health'[a].status = health[a].status
                      /\ health'[a].cooldownUntil = health[a].cooldownUntil]_vars

\* a HEALTHY account has failed for the maxConsecutiveFailures-th time in
\* a row, with a network error, and is cooling down
C28_Witness ==
    \E a \in Loaded :
        /\ health[a].status = COOLDOWN
        /\ health[a].lastErrorType = NETWORK
        /\ health[a].consecutiveFailures = maxConsecutiveFailures
        /\ health[a].requestCount = maxConsecutiveFailures
        /\ health[a].cooldownUntil = now + cooldownMs

\* recordFailure writes COOLDOWN on account a in this step
WritesCooldown(a) ==
    \E errorType \in ErrorType \ {ACCOUNT_LOCKED} :
        /\ RecordFailure(a, errorType)
        /\ \/ errorType = RATE_LIMIT
           \/ health[a].consecutiveFailures + 1 >= maxConsecutiveFailures

\* C29: in every reachable state an account in COOLDOWN has cooldownUntil set,
\* and the value is the time of the most recent write of COOLDOWN plus
\* cooldownMs: every write sets it so, ahead of the clock, and no other step
\* puts an account in COOLDOWN or changes the cooldownUntil of one that is.
C29_CooldownHasDeadline ==
    /\ [](\A a \in Loaded :
             health[a].status = COOLDOWN => truthy(health[a].cooldownUntil))
    /\ [][\A a \in Loaded :
             IF WritesCooldown(a)
             THEN /\ health'[a].status = COOLDOWN
                  /\ health'[a].cooldownUntil = now + cooldownMs
                  /\ health'[a].cooldownUntil > now
             ELSE health'[a].status = COOLDOWN =>
                     /\ health[a].status = COOLDOWN
                     /\ health'[a].cooldownUntil = health[a].cooldownUntil]_vars

\* an account cooled down at the threshold has failed once more, one time unit
\* later, and its cooldownUntil has moved on with it
C29_Witness ==
    \E a \in Loaded :
        /\ health[a].status = COOLDOWN
        /\ health[a].consecutiveFailures = maxConsecutiveFailures + 1
        /\ health[a].requestTimestamps = <<1, 1, 1, 2>>
        /\ health[a].cooldownUntil = 2 + cooldownMs

\* C30: pruning by the periodic sweep never changes admission: the sweep
\* removes only the time stamps outside the rate window, in place, so that an
\* account is admissible after it exactly when it was before.
C30_PruningKeepsAdmission ==
    [][HealthCheckInterval =>
          \A a \in Loaded :
             /\ health'[a].requestTimestamps =
                   SelectSeq(health[a].requestTimestamps,
                             LAMBDA s : now - s < rateLimitWindow)
             /\ Cardinality(InsideWindow(a)') = Cardinality(InsideWindow(a))
             /\ Admissible(a)' <=> Admissible(a)]_vars

\* the sweep has just pruned the time stamp of an account's first request and
\* kept the later two
C30_Witness ==
    \E a \in Loaded :
        /\ sweptAt = now
        /\ health[a].requestCount = 3
        /\ health[a].lastUsed = now
        /\ Len(health[a].requestTimestamps) = 2

----------------------------------------------------------------------------
\* Properties of the retry loop and the scheduler

\* C33: a failure of authenticate in an attempt is handled as a failure of the
\* thunk is.  It is classified and recorded with recordFailure on the account
\* selected for the attempt (requestCount and consecutiveFailures go up by
\* one), the thunk is not called in that attempt, activeOps stays as it is, and
\* the request goes to the backoff when the kind is TIMEOUT, NETWORK or UNKNOWN
\* and is rejected with the error otherwise.
C33_AuthFailureHandledAsThunkFailure ==
    [][ \A id \in Ids, message \in UpstreamMessages :
           AuthenticateThrows(id, message) =>
               LET errorType == classifyError(message)
                   account == req[id].account
               IN  /\ Records(account, errorType)
                   /\ health'[account] = recordFailure(health[account], errorType, now)
                   /\ \A other \in Loaded \ {account} : health'[other] = health[other]
                   /\ req'[id].invoked = req[id].invoked
                   /\ req'[id].attempt = req[id].attempt
                   /\ req'[id].lastError = message
                   /\ activeOps' = activeOps
                   /\ IF errorType \in {TIMEOUT, NETWORK, UNKNOWN}
                      THEN req'[id].pc = "backoff"
                      ELSE req'[id].pc = "rejected" /\ req'[id].error = message ]_vars

\* the only request made so far is in the backoff after authenticate failed in
\* its first attempt: no thunk was called, the failure is on the account
C33_Witness ==
    /\ nextId = 1
    /\ req[1].pc = "backoff"
    /\ req[1].attempt = 0
    /\ req[1].invoked = 0
    /\ activeOps = 0
    /\ health[req[1].account].requestCount = 1
    /\ health[req[1].account].consecutiveFailures = 1
    /\ health[req[1].account].lastErrorType = classifyError(req[1].lastError)

\* C34: successRate is an exponential moving average.  It starts at 1.0, every
\* recordSuccess sets it to 0.9 * old + 0.1 and every recordFailure to
\* 0.9 * old, whatever came before (one failure and then one success give
\* 0.91).  In thousandths.
C34_SuccessRateIsMovingAverage ==
    [][ \A a \in Loaded :
           /\ RecordSuccess(a) =>
                 health'[a].successRate
                    = (health[a].successRate * 9) \div 10 + RateScale \div 10
           /\ (\E errorType \in ErrorType : RecordFailure(a, errorType)) =>
                 health'[a].successRate = (health[a].successRate * 9) \div 10 ]_vars

\* the requests whose thunk is running
Executing == {id \in Ids : req[id].pc = "executor"}

\* C36: activeOps is the number of thunks that are running.  It goes up by one
\* in the step that starts a thunk and down by one in the step in which the
\* thunk ends, by a result or by an exception; it is never negative, and it is 0
\* when no thunk is running.
C36_ActiveOpsCountsThunks ==
    /\ [](/\ activeOps = Cardinality(Executing)
          /\ activeOps >= 0
          /\ Executing = {} => activeOps = 0)
    /\ [][ \A id \in Ids :
              /\ (id \notin Executing /\ id \in Executing') =>
                     activeOps' = activeOps + 1
              /\ (id \in Executing /\ id \notin Executing') =>
                     /\ activeOps' = activeOps - 1
                     /\ req'[id].pc \in {"resolved", "rejected", "backoff"} ]_vars

\* one thunk is running while another request, whose thunk threw, is in its
\* backoff
C36_Witness ==
    \E id, other \in Ids :
        /\ req[id].pc = "executor"
        /\ req[other].pc = "backoff"
        /\ req[other].invoked = 1
        /\ activeOps = 1

\* C37: the requests that the scheduler has taken from the queue and that are
\* not settled yet (in authentication, running their thunk or in a backoff) are
\* never more than maxConcurrency; a tick of the scheduler that finds more
\* requests queued than slots free leaves the rest in the queue.
C37_SpawnedWithinConcurrency ==
    Cardinality({id \in Ids : InFlight(id)}) <= maxConcurrency

\* C40: in the retry loop a backoff sleep happens only between two attempts.
\* A request sleeps in a backoff only while an attempt is still to come; when
\* the last permitted attempt, the third, fails with a transient error, the
\* request is rejected and does not sleep again.
C40_BackoffOnlyBetweenAttempts ==
    \A id \in Ids :
        req[id].pc = "backoff" => req[id].attempt + 1 < maxRetries

----------------------------------------------------------------------------
\* Properties of the authentication ladder

\* the place of a step on the ladder
rung(step) == IF step = "cookies" THEN 1 ELSE IF step = "tokens" THEN 2 ELSE 3

\* the step of that name was gone through before position i and failed its
\* session check
FailedBefore(steps, i, name) ==
    \E j \in 1 .. i - 1 : steps[j].step = name /\ steps[j].outcome = "failed"

\* C31: authenticate goes through its ladder in the order saved cookies, then
\* ct0 + auth_token, then credential login, and stops at the first step whose
\* session verifies.  The saved cookies come first when there are some; the
\* login is reached only when each of the two steps before it was unavailable
\* or failed its session check; no step follows a verified one; authenticate
\* returns only with the session check of its last step passed.
C31_LadderInOrder ==
    \A s \in 1 .. 2 :
        LET session == ladder[s]
            steps == session.steps
        IN  /\ \A i, j \in 1 .. Len(steps) :
                  i < j => rung(steps[i].step) < rung(steps[j].step)
            /\ (Len(steps) > 0 /\ session.cached) => steps[1].step = "cookies"
            /\ \A i \in 1 .. Len(steps) :
                  /\ steps[i].step = "tokens" => session.tokens
                  /\ steps[i].step = "login" =>
                        /\ ~session.cached \/ FailedBefore(steps, i, "cookies")
                        /\ ~session.tokens \/ FailedBefore(steps, i, "tokens")
                  /\ steps[i].outcome = "verified" => i = Len(steps)
                  /\ i < Len(steps) => steps[i].outcome = "failed"
            /\ session.pc = "returned" =>
                  /\ Len(steps) > 0
                  /\ steps[Len(steps)].outcome = "verified"

\* the saved cookies and the tokens both failed the session check, and the
\* login that followed was verified
C31_Witness ==
    \E s \in 1 .. 2 :
        /\ ladder[s].pc = "returned"
        /\ Len(ladder[s].steps) = 3
        /\ ladder[s].steps[1] = [step |-> "cookies", outcome |-> "failed"]
        /\ ladder[s].steps[2] = [step |-> "tokens", outcome |-> "failed"]
        /\ ladder[s].steps[3] = [step |-> "login", outcome |-> "verified"]

\* C32: when a step of the ladder verifies the session, the cookies of the
\* account are in the cookie cache before authenticate returns: the write to
\* the cache has been done when the thunk of that attempt starts.
C32_PersistedBeforeThunk ==
    \A s \in 1 .. 2 :
        /\ ladder[s].pc = "returned" => ladder[s].persist = "saved"
        /\ ladder[s].thunk => ladder[s].persist = "saved"

\* the entry the cache holds for the account of attempt s
CachedEntries(s) ==
    SelectSeq(readCookiesFile(cookiesFile),
              LAMBDA e : e.username = SessionAccount(s).username)

\* C35: the writes to the cookie cache do not lose one another.  When the
\* authentications of two different accounts have both persisted their
\* cookies, in whatever order their steps were taken, the cache holds one
\* entry for each of the two accounts, with the cookies that account saved
\* last.
C35_BothEntriesKept ==
    (\A s \in 1 .. 2 : ladder[s].persist = "saved") =>
        \A s \in 1 .. 2 :
            /\ Len(CachedEntries(s)) = 1
            /\ CachedEntries(s)[1].cookies = ladder[s].fresh

\* both authentications were under way before either saved, the second one
\* saved first, and the cache, which had an entry of a third account, holds
\* all three
C35_Witness ==
    /\ \A s \in 1 .. 2 : ladder[s].persist = "saved"
    /\ ladder[1].fresh # ladder[2].fresh
    /\ Len(readCookiesFile(cookiesFile)) = 3
    /\ readCookiesFile(cookiesFile)[2].username = "bob"
    /\ readCookiesFile(cookiesFile)[3].username = "alice"

----------------------------------------------------------------------------
\* Properties of the health registry under any sequence of outcomes

\* C38: no operation of the dispatcher puts an account into DISABLED.  From
\* the HEALTHY records made at first use, whatever successes, failures of any
\* kind, health checks and selections follow, no account is DISABLED and
\* getStats counts 0 accounts as DISABLED.
C38_NeverDisabled ==
    /\ \A a \in Loaded : health[a].status # DISABLED
    /\ getStats.accounts.byStatus[DISABLED] = 0
    /\ \A a \in Loaded : getStats.perAccount[a].status # DISABLED

\* outcomes of several kinds were recorded on both accounts: one is LOCKED,
\* the other has come back to PROBATION from a cooldown, its last failure an
\* AUTH error
C38_Witness ==
    \E a, b \in Loaded :
        /\ health[a].status = LOCKED
        /\ health[a].requestCount >= 2
        /\ health[b].status = PROBATION
        /\ health[b].lastErrorType = AUTH
        /\ getStats.accounts.byStatus[LOCKED] = 1

\* account a goes from PROBATION to HEALTHY in this step
Promoted(a) == health[a].status = PROBATION /\ health'[a].status = HEALTHY

\* C39: an account is promoted from PROBATION to HEALTHY only after at least
\* three successes have been recorded for it since it entered PROBATION; the
\* successes recorded while it was still in COOLDOWN do not count.
C39_ThreeSuccessesInProbation ==
    [][ \A a \in Loaded : Promoted(a) => recorded'.sinceProbation[a] >= 3 ]_vars

\* C39, as the code has it: an account is promoted from PROBATION to HEALTHY
\* only by a recorded success and only after at least three successes have been
\* recorded for it since its last recorded failure; the successes recorded while
\* it was still in COOLDOWN count: a success recorded on a PROBATION account
\* promotes it exactly when it is at least the third since the last failure.
C39_ThreeSuccessesSinceFailure ==
    [][ \A a \in Loaded :
           /\ Promoted(a) =>
                 /\ RecordSuccess(a)
                 /\ recorded'.sinceFailure[a] >= 3
           /\ (RecordSuccess(a) /\ health[a].status = PROBATION) =>
                 (health'[a].status = HEALTHY <=> recorded'.sinceFailure[a] >= 3) ]_vars

\* an account was promoted by its first success on PROBATION: the two before
\* it were recorded while it was in COOLDOWN after a rate limit
C39_Witness ==
    \E a \in Loaded :
        /\ health[a].status = HEALTHY
        /\ health[a].lastErrorType = RATE_LIMIT
        /\ health[a].requestCount = 4
        /\ recorded.sinceFailure[a] = 3
        /\ recorded.sinceProbation[a] = 1

====
